---- MODULE Spec2Model ----
(***************************************************************************)
(* State-machine model of the FinOps job pipeline of aws-dashboard-backend: *)
(* the cron scheduler and its isRunning guard (jobs/scheduler.ts), the      *)
(* per-workspace job (processWorkspace), the inventory sync                 *)
(* (syncWorkspaceResources), the analysis path (runFinOpsEngine) and the    *)
(* PATCH /api/recommendations/:id route.                                    *)
(*                                                                          *)
(* Units.  Time is counted in whole hours (clock).  Money is counted in     *)
(* 1/10000 USD, so that the price tables are integers.  CPU percentages are *)
(* counted in tenths of a percent, sizeBytes of a bucket in GiB,            *)
(* bytesProcessedPerDay of a NAT gateway in MiB and avgInvocationsPerDay of *)
(* a function in thousands.  The Lambda price 0.0000166667 USD per          *)
(* GB-second is taken as 1/60000 USD, and a cost that is stored unrounded   *)
(* is cut to a whole number of 1/10000 USD.                                 *)
(*                                                                          *)
(* Every awaited call of the code is one step of the model, and every       *)
(* awaited database or cloud call may throw.                                *)
(***************************************************************************)
EXTENDS Integers, Sequences, FiniteSets, TLC

VARIABLES
    clock,        \* wall clock (new Date(), CURRENT_TIMESTAMP), in hours
    awsMock,      \* process.env.AWS_MOCK === 'true'
    account,      \* the AWS account of the workspaces: what its APIs answer
    isRunning,    \* scheduler.ts: let isRunning
    workspaces,   \* table Workspace: id -> [status]
    jobRuns,      \* table JobRun: sequence of rows, the index is the id
    resources,    \* table Resource: <<workspaceId, resourceId>> -> row
    recs,         \* table Recommendation: <<workspaceId, resourceId, type>> -> row
    pc,           \* per tick invocation: the await it is suspended at
    loc,          \* per tick invocation: the local variables of its frames
    skipped,      \* history: the number of ticks dropped by the guard (the
                  \* 'Previous run still in progress, skipping' log lines)
    gone          \* history: the ids of deleted workspaces (an id is generated
                  \* once and never given to another row)

vars == <<clock, awsMock, account, isRunning, workspaces, jobRuns, resources, recs,
          pc, loc, skipped, gone>>

-----------------------------------------------------------------------------
(* Bounds of the model *)

MaxClock == 2
MaxJobs == 2
NInv == 2
MaxSkips == 1

Inv == 1..NInv
WorkspaceIds == <<"w1", "w2">>
WS == {WorkspaceIds[n] : n \in 1..Len(WorkspaceIds)}

(* Optional values: null is the empty sequence, a value x is <<x>>. *)
None == <<>>
Some(x) == <<x>>
IsSome(o) == o /= <<>>
Val(o) == o[1]

(* The orders in which a query without orderBy may return the rows of S *)
Orders(S) == {q \in [1..Cardinality(S) -> S] : {q[k] : k \in 1..Cardinality(S)} = S}

-----------------------------------------------------------------------------
(* Pricing and cost model, engine/finopsEngine.ts *)

HOURS_IN_MONTH == 730
OneHour == 1
HoursPerDay == 24
ORPHAN_DAYS_THRESHOLD == 7
CPU_THRESHOLD == 100
CPU_HIGH_CONFIDENCE == 50
MinPeriodDays == 14
Ec2FallbackHourly == 1920
EbsFallbackPerGiB == 1000

EC2_HOURLY_PRICES ==
    [t \in {"t3.micro", "t3.small", "t3.medium", "t3.large", "m5.large",
            "m5.xlarge", "m5.2xlarge", "c5.large", "c5.xlarge", "c5.2xlarge",
            "r5.large", "r5.xlarge", "r5.2xlarge"} |->
       CASE t = "t3.micro" -> 104 [] t = "t3.small" -> 208
         [] t = "t3.medium" -> 416 [] t = "t3.large" -> 832
         [] t = "m5.large" -> 960 [] t = "m5.xlarge" -> 1920
         [] t = "m5.2xlarge" -> 3840 [] t = "c5.large" -> 850
         [] t = "c5.xlarge" -> 1700 [] t = "c5.2xlarge" -> 3400
         [] t = "r5.large" -> 1260 [] t = "r5.xlarge" -> 2520
         [] t = "r5.2xlarge" -> 5040]

EBS_MONTHLY_PER_GIB ==
    [t \in {"gp2", "gp3", "io1", "io2", "st1", "sc1"} |->
       CASE t = "gp2" -> 1000 [] t = "gp3" -> 800 [] t = "io1" -> 1250
         [] t = "io2" -> 1250 [] t = "st1" -> 450 [] t = "sc1" -> 150]

S3_STANDARD_PER_GB == 230
S3_GLACIER_PER_GB == 40
RdsFallbackHourly == 3420
LambdaGBSecondsPerUnit == 6
LAMBDA_FREE_TIER_GB_SECONDS == 400000
NAT_GATEWAY_HOURLY == 450
NAT_GATEWAY_PER_GB == 450
ELASTIC_IP_HOURLY_UNUSED == 50
ALB_HOURLY == 225
NLB_HOURLY == 225
INACTIVITY_DAYS_THRESHOLD == 90
RDS_CPU_THRESHOLD == 150
CONN_THRESHOLD == 10
RdsHighCpu == 50
RdsHighConnections == 3
OversizedMinMemoryMB == 512
OversizedMaxDurationMs == 100
RightsizedMinMemoryMB == 128
OversizedMinSavings == 5000
TRAFFIC_THRESHOLD_GB_PER_DAY == 1
MiBPerGiB == 1024
DaysPerMonth == 30

RDS_HOURLY_PRICES ==
    [t \in {"db.t3.micro", "db.t3.small", "db.t3.medium", "db.m5.large",
            "db.m5.xlarge", "db.r5.large", "db.r5.xlarge", "db.r5.2xlarge"} |->
       CASE t = "db.t3.micro" -> 170 [] t = "db.t3.small" -> 340
         [] t = "db.t3.medium" -> 680 [] t = "db.m5.large" -> 1710
         [] t = "db.m5.xlarge" -> 3420 [] t = "db.r5.large" -> 2400
         [] t = "db.r5.xlarge" -> 4800 [] t = "db.r5.2xlarge" -> 9600]

(* Math.round(x * 100) / 100 on the amount num / den (in 1/10000 USD): the  *)
(* nearest whole number of cents, a half going up                            *)
Unrounded(num, den) == num \div den

RoundCentsOf(num, den) == ((2 * num + 100 * den) \div (200 * den)) * 100


getEc2InstanceCost(instance) ==
    IF instance.state /= "running" THEN 0
    ELSE (IF instance.instanceType \in DOMAIN EC2_HOURLY_PRICES
          THEN EC2_HOURLY_PRICES[instance.instanceType] ELSE 0) * HOURS_IN_MONTH

getEbsVolumeCost(volume) ==
    volume.size * (IF volume.volumeType \in DOMAIN EBS_MONTHLY_PER_GIB
                   THEN EBS_MONTHLY_PER_GIB[volume.volumeType]
                   ELSE EbsFallbackPerGiB)

getS3BucketCost(bucket) == bucket.sizeBytes * S3_STANDARD_PER_GB

getRdsInstanceCost(instance) ==
    IF instance.status /= "available" THEN 0
    ELSE (IF instance.dbInstanceClass \in DOMAIN RDS_HOURLY_PRICES
          THEN RDS_HOURLY_PRICES[instance.dbInstanceClass] ELSE 0) * HOURS_IN_MONTH

Max(a, b) == IF a > b THEN a ELSE b

(* GB-seconds per month, times MiBPerGiB *)
LambdaMonthlyMBSeconds(fn, memoryMB) ==
    fn.avgInvocationsPerDay * fn.avgDurationMs * memoryMB * DaysPerMonth

getLambdaFunctionCost(fn) ==
    IF fn.avgInvocationsPerDay = 0 THEN 0
    ELSE Max(0, LambdaMonthlyMBSeconds(fn, fn.memoryMB)
                - LAMBDA_FREE_TIER_GB_SECONDS * MiBPerGiB)
         \div (MiBPerGiB * LambdaGBSecondsPerUnit)

getLoadBalancerCost(lb) ==
    (IF lb.type = "network" THEN NLB_HOURLY ELSE ALB_HOURLY) * HOURS_IN_MONTH

(* fixed cost plus data transfer, times MiBPerGiB *)
NatGatewayCostMiB(nat) ==
    NAT_GATEWAY_HOURLY * HOURS_IN_MONTH * MiBPerGiB
    + nat.bytesProcessedPerDay * DaysPerMonth * NAT_GATEWAY_PER_GB

getNatGatewayCost(nat) == NatGatewayCostMiB(nat) \div MiBPerGiB

getElasticIPCost(eip) ==
    IF IsSome(eip.associationId) THEN 0
    ELSE ELASTIC_IP_HOURLY_UNUSED * HOURS_IN_MONTH

-----------------------------------------------------------------------------
(* The seeded mock of aws/mockClients.ts returns fixed fixtures; the model   *)
(* keeps one instance and one volume of them.  The variable `account` is     *)
(* what the AWS APIs answer to the inventory sync and to the live client.    *)
(* The clock's origin is placed so that the mock volume's age passes a       *)
(* whole number of days at clock = DayBoundary.                              *)

DayBoundary == 1
SeedAgeHours == 2
MockVolumeAgeDays == 8

MockEC2Instances ==
    << [instanceId |-> "i-0a1b2c3d4e5f00004", instanceType |-> "t3.medium",
        state |-> "running", name |-> "test-server"] >>

MockCpuMetrics ==
    << [instanceId |-> "i-0a1b2c3d4e5f00004", averageCpuPercent |-> 71,
        maxCpuPercent |-> 150, periodDays |-> 14] >>

MockEBSVolumes ==
    << [volumeId |-> "vol-0a1b2c3d4e5f00002", size |-> 500, volumeType |-> "gp2",
        state |-> "available", attachments |-> 0,
        createTime |-> DayBoundary - (MockVolumeAgeDays + 1) * HoursPerDay] >>

-----------------------------------------------------------------------------
(* Analyzers, engine/finopsEngine.ts *)

MetricFor(metrics, id) ==
    LET hits == {k \in 1..Len(metrics) : metrics[k].instanceId = id}
    IN IF hits = {} THEN None
       ELSE Some(metrics[CHOOSE k \in hits : \A j \in hits : j <= k])

EC2ConfidenceInclusive(m) ==
    IF m.averageCpuPercent <= CPU_HIGH_CONFIDENCE THEN "high" ELSE "medium"

EC2Confidence(m) ==
    IF m.averageCpuPercent < CPU_HIGH_CONFIDENCE THEN "high" ELSE "medium"

EC2Rec(instance, metrics) ==
    LET m == MetricFor(metrics, instance.instanceId) IN
    IF instance.state /= "running" THEN <<>>
    ELSE IF ~IsSome(m) \/ Val(m).periodDays < MinPeriodDays THEN <<>>
    ELSE IF Val(m).averageCpuPercent < CPU_THRESHOLD
    THEN LET currentPrice ==
                 IF instance.instanceType \in DOMAIN EC2_HOURLY_PRICES
                 THEN EC2_HOURLY_PRICES[instance.instanceType]
                 ELSE Ec2FallbackHourly
         IN << [type |-> "EC2_DOWN_SIZE",
                resourceId |-> instance.instanceId,
                description |-> <<instance.name, instance.instanceType,
                                  Val(m).averageCpuPercent, Val(m).periodDays>>,
                estimatedMonthlySavings |->
                    RoundCentsOf(currentPrice * HOURS_IN_MONTH * 3, 10),
                confidence |-> EC2Confidence(Val(m)),
                metadata |-> <<instance.instanceType, Val(m).averageCpuPercent,
                               Val(m).maxCpuPercent, instance.name>>] >>
    ELSE <<>>

RECURSIVE analyzeEC2Downsizing(_, _)
analyzeEC2Downsizing(instances, metrics) ==
    IF instances = <<>> THEN <<>>
    ELSE EC2Rec(Head(instances), metrics)
         \o analyzeEC2Downsizing(Tail(instances), metrics)

EBSRec(volume, now) ==
    IF volume.state /= "available" \/ volume.attachments > 0 THEN <<>>
    ELSE LET daysSinceCreation == (now - volume.createTime) \div HoursPerDay
             pricePerGiB == IF volume.volumeType \in DOMAIN EBS_MONTHLY_PER_GIB
                            THEN EBS_MONTHLY_PER_GIB[volume.volumeType]
                            ELSE EbsFallbackPerGiB
         IN IF daysSinceCreation > ORPHAN_DAYS_THRESHOLD
            THEN << [type |-> "EBS_ORPHAN",
                     resourceId |-> volume.volumeId,
                     description |-> <<volume.volumeId, volume.volumeType,
                                       volume.size, daysSinceCreation>>,
                     estimatedMonthlySavings |->
                         RoundCentsOf(volume.size * pricePerGiB, 1),
                     confidence |-> "high",
                     metadata |-> <<volume.volumeType, volume.size,
                                    daysSinceCreation>>] >>
            ELSE <<>>

RECURSIVE analyzeEBSOrphaned(_, _)
analyzeEBSOrphaned(volumes, now) ==
    IF volumes = <<>> THEN <<>>
    ELSE EBSRec(Head(volumes), now) \o analyzeEBSOrphaned(Tail(volumes), now)

S3Rec(bucket) ==
    IF bucket.lastAccessedDays > INACTIVITY_DAYS_THRESHOLD
       /\ bucket.storageClass = "STANDARD"
    THEN << [type |-> "S3_LIFECYCLE",
             resourceId |-> bucket.bucketName,
             description |-> <<bucket.bucketName, bucket.objectCount,
                               bucket.sizeBytes, bucket.lastAccessedDays>>,
             estimatedMonthlySavings |->
                 RoundCentsOf(bucket.sizeBytes
                              * (S3_STANDARD_PER_GB - S3_GLACIER_PER_GB) * 6, 10),
             confidence |-> "medium",
             metadata |-> <<bucket.bucketName, bucket.sizeBytes,
                            bucket.objectCount, bucket.lastAccessedDays>>] >>
    ELSE <<>>

RECURSIVE analyzeS3Lifecycle(_)
analyzeS3Lifecycle(buckets) ==
    IF buckets = <<>> THEN <<>>
    ELSE S3Rec(Head(buckets)) \o analyzeS3Lifecycle(Tail(buckets))

RDSRec(instance) ==
    IF instance.status /= "available" THEN <<>>
    ELSE IF instance.averageCpuPercent < RDS_CPU_THRESHOLD
            /\ instance.averageConnections < CONN_THRESHOLD
    THEN LET currentPrice ==
                 IF instance.dbInstanceClass \in DOMAIN RDS_HOURLY_PRICES
                 THEN RDS_HOURLY_PRICES[instance.dbInstanceClass]
                 ELSE RdsFallbackHourly
         IN << [type |-> "RDS_DOWN_SIZE",
                resourceId |-> instance.dbInstanceId,
                description |-> <<instance.dbInstanceId, instance.dbInstanceClass,
                                  instance.engine, instance.averageCpuPercent,
                                  instance.averageConnections, instance.multiAZ>>,
                estimatedMonthlySavings |->
                    RoundCentsOf(currentPrice * HOURS_IN_MONTH * 3, 10),
                confidence |-> IF instance.averageCpuPercent < RdsHighCpu
                                  /\ instance.averageConnections < RdsHighConnections
                               THEN "high" ELSE "medium",
                metadata |-> <<instance.dbInstanceClass, instance.engine,
                               instance.averageCpuPercent,
                               instance.averageConnections, instance.multiAZ>>] >>
    ELSE <<>>

RECURSIVE analyzeRDSDownsizing(_)
analyzeRDSDownsizing(instances) ==
    IF instances = <<>> THEN <<>>
    ELSE RDSRec(Head(instances)) \o analyzeRDSDownsizing(Tail(instances))

(* Math.max(128, Math.ceil(fn.memoryMB / 3)) *)
RightsizedMemoryMB(fn) == Max(RightsizedMinMemoryMB, (fn.memoryMB + 2) \div 3)

LambdaRec(fn) ==
    IF fn.avgInvocationsPerDay = 0
    THEN << [type |-> "LAMBDA_UNUSED",
             resourceId |-> fn.functionName,
             description |-> <<fn.functionName, fn.runtime, fn.memoryMB>>,
             estimatedMonthlySavings |->
                 RoundCentsOf(fn.memoryMB * fn.timeoutSeconds * 100 * DaysPerMonth,
                              MiBPerGiB * LambdaGBSecondsPerUnit),
             confidence |-> "high",
             metadata |-> <<fn.functionName, fn.runtime, fn.memoryMB,
                            fn.timeoutSeconds>>] >>
    ELSE IF fn.memoryMB >= OversizedMinMemoryMB /\ fn.avgDurationMs > 0
            /\ fn.avgDurationMs < OversizedMaxDurationMs
    THEN LET saved == Max(0, LambdaMonthlyMBSeconds(fn, fn.memoryMB)
                             - LambdaMonthlyMBSeconds(fn, RightsizedMemoryMB(fn)))
             den == MiBPerGiB * LambdaGBSecondsPerUnit
         IN IF saved > OversizedMinSavings * den
            THEN << [type |-> "LAMBDA_OVERSIZED",
                     resourceId |-> fn.functionName,
                     description |-> <<fn.functionName, fn.memoryMB,
                                       fn.avgDurationMs, RightsizedMemoryMB(fn)>>,
                     estimatedMonthlySavings |-> RoundCentsOf(saved, den),
                     confidence |-> "medium",
                     metadata |-> <<fn.functionName, fn.memoryMB,
                                    RightsizedMemoryMB(fn), fn.avgDurationMs,
                                    fn.avgInvocationsPerDay>>] >>
            ELSE <<>>
    ELSE <<>>

RECURSIVE analyzeLambdaOptimization(_)
analyzeLambdaOptimization(functions) ==
    IF functions = <<>> THEN <<>>
    ELSE LambdaRec(Head(functions)) \o analyzeLambdaOptimization(Tail(functions))

ELBRec(lb) ==
    IF lb.state /= "active" THEN <<>>
    ELSE IF lb.totalTargetCount = 0
    THEN << [type |-> "ELB_NO_TARGETS",
             resourceId |-> lb.loadBalancerName,
             description |-> <<lb.loadBalancerName, lb.type>>,
             estimatedMonthlySavings |-> RoundCentsOf(getLoadBalancerCost(lb), 1),
             confidence |-> "high",
             metadata |-> <<lb.loadBalancerName, lb.type>>] >>
    ELSE IF lb.requestCountPerDay = 0
    THEN << [type |-> "ELB_NO_TRAFFIC",
             resourceId |-> lb.loadBalancerName,
             description |-> <<lb.loadBalancerName, lb.type, lb.totalTargetCount>>,
             estimatedMonthlySavings |-> RoundCentsOf(getLoadBalancerCost(lb), 1),
             confidence |-> "medium",
             metadata |-> <<lb.loadBalancerName, lb.type, lb.totalTargetCount,
                            lb.activeTargetCount>>] >>
    ELSE <<>>

RECURSIVE analyzeELBIdle(_)
analyzeELBIdle(loadBalancers) ==
    IF loadBalancers = <<>> THEN <<>>
    ELSE ELBRec(Head(loadBalancers)) \o analyzeELBIdle(Tail(loadBalancers))

EIPRec(eip) ==
    IF ~IsSome(eip.associationId)
    THEN << [type |-> "EIP_UNASSOCIATED",
             resourceId |-> eip.allocationId,
             description |-> <<eip.publicIp, eip.allocationId>>,
             estimatedMonthlySavings |->
                 RoundCentsOf(ELASTIC_IP_HOURLY_UNUSED * HOURS_IN_MONTH, 1),
             confidence |-> "high",
             metadata |-> <<eip.allocationId, eip.publicIp, eip.domain>>] >>
    ELSE <<>>

RECURSIVE analyzeElasticIPUnused(_)
analyzeElasticIPUnused(eips) ==
    IF eips = <<>> THEN <<>>
    ELSE EIPRec(Head(eips)) \o analyzeElasticIPUnused(Tail(eips))

NATRec(nat) ==
    IF nat.state /= "available" THEN <<>>
    ELSE IF nat.bytesProcessedPerDay < TRAFFIC_THRESHOLD_GB_PER_DAY * MiBPerGiB
    THEN << [type |-> "NAT_GW_IDLE",
             resourceId |-> nat.natGatewayId,
             description |-> <<nat.natGatewayId, nat.bytesProcessedPerDay>>,
             estimatedMonthlySavings |->
                 RoundCentsOf(NatGatewayCostMiB(nat), MiBPerGiB),
             confidence |-> "medium",
             metadata |-> <<nat.natGatewayId, nat.bytesProcessedPerDay>>] >>
    ELSE <<>>

RECURSIVE analyzeNatGatewayIdle(_)
analyzeNatGatewayIdle(natGateways) ==
    IF natGateways = <<>> THEN <<>>
    ELSE NATRec(Head(natGateways)) \o analyzeNatGatewayIdle(Tail(natGateways))

-----------------------------------------------------------------------------
(* Tables: rows are found by their unique key *)

Put(f, k, v) == [x \in DOMAIN f \cup {k} |-> IF x = k THEN v ELSE f[x]]

(* prisma.resource.upsert of the inventory sync, costsService.ts:1180-1211.  *)
(* The collectors set no estimatedMonthlyCost: create stores ?? 0, update    *)
(* leaves the stored cost alone (?? undefined).  createdAt is the column's   *)
(* default on insert (migration.sql:16) and written by no update.            *)
SyncRowResetsCost(old, r, now) ==
    [service |-> r.service, type |-> r.type, state |-> r.state,
     estimatedMonthlyCost |->
         IF IsSome(r.estimatedMonthlyCost) THEN Val(r.estimatedMonthlyCost) ELSE 0,
     lastSeenAt |-> now,
     createdAt |-> IF IsSome(old) THEN Val(old).createdAt ELSE now]

SyncResourceRow(old, r, now) ==
    [service |-> r.service, type |-> r.type, state |-> r.state,
     estimatedMonthlyCost |->
         IF IsSome(r.estimatedMonthlyCost) THEN Val(r.estimatedMonthlyCost)
         ELSE IF IsSome(old) THEN Val(old).estimatedMonthlyCost ELSE 0,
     lastSeenAt |-> now,
     createdAt |-> IF IsSome(old) THEN Val(old).createdAt ELSE now]

(* prisma.resource.upsert of the analysis path, finopsEngine.ts:151-178 *)
EngineResourceRow(old, r, now) ==
    [service |-> r.service, type |-> r.type, state |-> r.state,
     estimatedMonthlyCost |-> r.estimatedMonthlyCost, lastSeenAt |-> now,
     createdAt |-> IF IsSome(old) THEN Val(old).createdAt ELSE now]

RowOf(tbl, k) == IF k \in DOMAIN tbl THEN Some(tbl[k]) ELSE None

(* prisma.resource.updateMany of the stale sweep, costsService.ts:1221-1229 *)
StaleSweepNothing(tbl, w, oneHourAgo) == tbl

StaleSweepDeletes(tbl, w, oneHourAgo) ==
    [k \in {x \in DOMAIN tbl : ~(x[1] = w /\ tbl[x].lastSeenAt < oneHourAgo)}
        |-> tbl[k]]

StaleSweepEveryWorkspace(tbl, w, oneHourAgo) ==
    [k \in DOMAIN tbl |->
        IF tbl[k].lastSeenAt < oneHourAgo
        THEN [tbl[k] EXCEPT !.state = "not-found"]
        ELSE tbl[k]]

StaleSweep(tbl, w, oneHourAgo) ==
    [k \in DOMAIN tbl |->
        IF k[1] = w /\ tbl[k].lastSeenAt < oneHourAgo
        THEN [tbl[k] EXCEPT !.state = "not-found"]
        ELSE tbl[k]]

(* prisma.recommendation.upsert, scheduler.ts:55-80 *)
RecCreateData(rec) ==
    [description |-> rec.description,
     estimatedMonthlySavings |-> rec.estimatedMonthlySavings,
     confidence |-> rec.confidence, metadata |-> rec.metadata,
     status |-> "new"]

RecUpdateResetsStatus(old, rec) ==
    [old EXCEPT !.description = rec.description,
                !.estimatedMonthlySavings = rec.estimatedMonthlySavings,
                !.confidence = rec.confidence,
                !.metadata = rec.metadata,
                !.status = "new"]

RecUpdateData(old, rec) ==
    [old EXCEPT !.description = rec.description,
                !.estimatedMonthlySavings = rec.estimatedMonthlySavings,
                !.confidence = rec.confidence,
                !.metadata = rec.metadata]

RecKey(w, rec) == <<w, rec.resourceId, rec.type>>

(* id String @default(cuid()): a created row gets an id no other row has.   *)
(* Recommendation rows are never deleted, so the row count names a new id.  *)
NewRecId(tbl) == Cardinality(DOMAIN tbl) + 1

RecInsert(tbl, k, data) == Put(tbl, k, data @@ [id |-> NewRecId(tbl)])

(* where: { workspaceId_resourceId_type }: the row of the key is updated,   *)
(* or a row is created when the key has none                                 *)
UpsertAlwaysCreates(tbl, w, rec) == RecInsert(tbl, RecKey(w, rec), RecCreateData(rec))

UpsertRecommendation(tbl, w, rec) ==
    IF RecKey(w, rec) \in DOMAIN tbl
    THEN Put(tbl, RecKey(w, rec), RecUpdateData(tbl[RecKey(w, rec)], rec))
    ELSE RecInsert(tbl, RecKey(w, rec), RecCreateData(rec))

(* prisma.jobRun.create / update, scheduler.ts:22-27, 90-97, 110-117 *)
JobRunCreateData(w, now) ==
    [workspaceId |-> w, status |-> "running", recommendationsFound |-> 0,
     errorMessage |-> None, startedAt |-> now, completedAt |-> None]

JobCompletedNoCount(jr, upsertCount, now) ==
    [jr EXCEPT !.status = "completed", !.completedAt = Some(now)]

JobCompletedData(jr, upsertCount, now) ==
    [jr EXCEPT !.status = "completed", !.recommendationsFound = upsertCount,
               !.completedAt = Some(now)]

JobFailedNoCompletedAt(jr, errorMessage, now) ==
    [jr EXCEPT !.status = "failed", !.errorMessage = Some(errorMessage)]

JobFailedData(jr, errorMessage, now) ==
    [jr EXCEPT !.status = "failed", !.errorMessage = Some(errorMessage),
               !.completedAt = Some(now)]

-----------------------------------------------------------------------------
(* Inventory collectors, costsService.ts:189-1173.  The sixteen collectors   *)
(* run in list order, four at a time.                                        *)

CollectorNames ==
    <<"EC2", "EBS", "S3", "RDS", "Lambda", "ELB", "CloudFront", "VPC",
      "AutoScaling", "ElasticBeanstalk", "DynamoDB", "SNS", "SQS", "Route53",
      "IAM", "CloudFormation">>

BatchSize == 4

DEFAULT_REGION == "us-east-1"

(* The collectors whose listing call is inside a try { } catch { /* skip */ } *)
(* of the collector itself                                                    *)
SwallowingCollectors ==
    {"CloudFront", "VPC", "AutoScaling", "ElasticBeanstalk", "DynamoDB", "SNS",
     "SQS", "Route53", "IAM", "CloudFormation"}

(* The accounts of the model.  Account holds what the seeded mock holds;    *)
(* WideAccount also holds a bucket, a table and a queue, the services whose  *)
(* collectors make a call per resource.                                      *)
EmptyAccount ==
    [ec2 |-> <<>>, cpuMetrics |-> <<>>, ebs |-> <<>>, buckets |-> <<>>,
     rds |-> <<>>, lambda |-> <<>>, elbs |-> <<>>, nats |-> <<>>, eips |-> <<>>,
     tables |-> <<>>, queues |-> <<>>]

Account ==
    [EmptyAccount EXCEPT !.ec2 = MockEC2Instances, !.cpuMetrics = MockCpuMetrics,
                         !.ebs = MockEBSVolumes]

WideAccount ==
    [Account EXCEPT
        !.buckets = <<[name |-> "bucket-1", region |-> "eu-west-1",
                       tags |-> {<<"env", "prod">>}, objectCount |-> 3,
                       sizeGB |-> 1, lastAccessedDays |-> 10,
                       storageClass |-> "STANDARD"]>>,
        !.tables = <<[name |-> "table-1", status |-> "ACTIVE", itemCount |-> 5]>>,
        !.queues = <<[name |-> "queue-1", approximateMessages |-> 2]>>]

(* The accounts the analyzers are run on: one or two resources of one      *)
(* service each, around every threshold of its analyzer, and one account    *)
(* with a resource of every service                                         *)
InputInstance(id, state, type) ==
    [instanceId |-> id, instanceType |-> type, state |-> state, name |-> id]

InputMetric(id, cpu, days) ==
    [instanceId |-> id, averageCpuPercent |-> cpu, maxCpuPercent |-> cpu + 100,
     periodDays |-> days]

InputMetrics(id) ==
    {<<>>} \cup {<<InputMetric(id, cpu, days)>> :
                    cpu \in {CPU_HIGH_CONFIDENCE - 1, CPU_HIGH_CONFIDENCE,
                             CPU_THRESHOLD - 1, CPU_THRESHOLD},
                    days \in {MinPeriodDays - 1, MinPeriodDays}}

EC2Accounts ==
    {[EmptyAccount EXCEPT !.ec2 = <<InputInstance("i-1", state, type)>>,
                          !.cpuMetrics = m] :
        state \in {"running", "stopped"}, type \in {"t3.medium", "x9.huge"},
        m \in InputMetrics("i-1")}
    \cup
    {[EmptyAccount EXCEPT !.ec2 = <<InputInstance("i-1", "running", "t3.medium"),
                                    InputInstance("i-2", "running", "m5.large")>>,
                          !.cpuMetrics = m2 \o m1] :
        m1 \in InputMetrics("i-1"), m2 \in InputMetrics("i-2")}

InputVolume(state, attachments, age, type, size) ==
    [volumeId |-> "vol-1", size |-> size, volumeType |-> type, state |-> state,
     attachments |-> attachments, createTime |-> 0 - age]

EBSAccounts ==
    {[EmptyAccount EXCEPT
         !.ebs = <<InputVolume(state, attachments,
                               ORPHAN_DAYS_THRESHOLD * HoursPerDay + late,
                               type, size)>>] :
        state \in {"available", "in-use"}, attachments \in {0, 1},
        late \in {0, OneHour, HoursPerDay}, type \in {"gp3", "zz9"},
        size \in {0, 125}}

InputBucket(days, class, size) ==
    [name |-> "bucket-1", region |-> DEFAULT_REGION, tags |-> {},
     objectCount |-> 3, sizeGB |-> size, lastAccessedDays |-> days,
     storageClass |-> class]

InputRds(status, cpu, connections, class) ==
    [dbInstanceId |-> "db-1", dbInstanceClass |-> class, engine |-> "postgres",
     status |-> status, averageCpuPercent |-> cpu,
     averageConnections |-> connections, multiAZ |-> FALSE]

InputFunction(invocations, memory, duration, timeout) ==
    [functionName |-> "fn-1", runtime |-> "nodejs20.x", memoryMB |-> memory,
     timeoutSeconds |-> timeout, avgInvocationsPerDay |-> invocations,
     avgDurationMs |-> duration]

InputLoadBalancer(state, type, targets, requests) ==
    [loadBalancerName |-> "lb-1", type |-> type, state |-> state,
     totalTargetCount |-> targets, activeTargetCount |-> targets,
     requestCountPerDay |-> requests]

InputNat(state, traffic) ==
    [natGatewayId |-> "nat-1", state |-> state, bytesProcessedPerDay |-> traffic]

InputEip(association) ==
    [allocationId |-> "eipalloc-1", publicIp |-> "203.0.113.1",
     associationId |-> association, domain |-> "vpc"]

OtherAccounts ==
    {[EmptyAccount EXCEPT !.buckets = <<InputBucket(days, class, size)>>] :
        days \in {INACTIVITY_DAYS_THRESHOLD, INACTIVITY_DAYS_THRESHOLD + 1},
        class \in {"STANDARD", "GLACIER"}, size \in {0, 7}}
    \cup
    {[EmptyAccount EXCEPT !.rds = <<InputRds(status, cpu, connections, class)>>] :
        status \in {"available", "stopped"},
        cpu \in {RdsHighCpu - 1, RDS_CPU_THRESHOLD - 1, RDS_CPU_THRESHOLD},
        connections \in {RdsHighConnections - 1, CONN_THRESHOLD},
        class \in {"db.t3.micro", "db.zz9"}}
    \cup
    {[EmptyAccount EXCEPT
         !.lambda = <<InputFunction(invocations, memory, duration, timeout)>>] :
        invocations \in {0, 1000},
        memory \in {RightsizedMinMemoryMB, OversizedMinMemoryMB},
        duration \in {0, OversizedMaxDurationMs \div 2, OversizedMaxDurationMs},
        timeout \in {0, 3}}
    \cup
    {[EmptyAccount EXCEPT
         !.elbs = <<InputLoadBalancer(state, type, targets, requests)>>] :
        state \in {"active", "provisioning"}, type \in {"application", "network"},
        targets \in {0, 2}, requests \in {0, 5}}
    \cup
    {[EmptyAccount EXCEPT !.nats = <<InputNat(state, traffic)>>] :
        state \in {"available", "deleted"},
        traffic \in {0, MiBPerGiB \div 2, MiBPerGiB}}
    \cup
    {[EmptyAccount EXCEPT !.eips = <<InputEip(association)>>] :
        association \in {None, Some("eipassoc-1")}}

FullAccount ==
    [EmptyAccount EXCEPT
        !.ec2 = <<InputInstance("i-1", "running", "t3.medium")>>,
        !.cpuMetrics = <<InputMetric("i-1", CPU_HIGH_CONFIDENCE - 1, MinPeriodDays)>>,
        !.ebs = <<InputVolume("available", 0,
                              (ORPHAN_DAYS_THRESHOLD + 1) * HoursPerDay, "gp3", 125)>>,
        !.buckets = <<InputBucket(INACTIVITY_DAYS_THRESHOLD + 1, "STANDARD", 7)>>,
        !.rds = <<InputRds("available", RdsHighCpu - 1, RdsHighConnections - 1,
                           "db.t3.micro")>>,
        !.lambda = <<InputFunction(1000, OversizedMinMemoryMB,
                                   OversizedMaxDurationMs \div 2, 3)>>,
        !.elbs = <<InputLoadBalancer("active", "application", 0, 0)>>,
        !.nats = <<InputNat("available", MiBPerGiB \div 2)>>,
        !.eips = <<InputEip(None)>>]

AnalyzerAccounts == EC2Accounts \cup EBSAccounts \cup OtherAccounts \cup {FullAccount}

(* The collectors whose listing call may fail in the model *)
FaultyCollectors == {"EC2"}

AllCollectors == {CollectorNames[n] : n \in 1..Len(CollectorNames)}

(* The calls a collector makes per listed resource *)
EnrichCalls(name, acc) ==
    CASE name = "S3" ->
           {<<acc.buckets[k].name, c>> :
               k \in 1..Len(acc.buckets),
               c \in {"GetBucketLocation", "GetBucketTagging", "ListObjectsV2"}}
      [] name = "DynamoDB" ->
           {<<acc.tables[k].name, "DescribeTable">> :
               k \in 1..Len(acc.tables)}
      [] name = "SQS" ->
           {<<acc.queues[k].name, "GetQueueAttributes">> :
               k \in 1..Len(acc.queues)}
      [] OTHER -> {}

collectEC2(acc) ==
    [k \in 1..Len(acc.ec2) |->
        [resourceId |-> acc.ec2[k].instanceId, service |-> "EC2",
         type |-> acc.ec2[k].instanceType,
         state |-> acc.ec2[k].state, estimatedMonthlyCost |-> None]]

collectEBS(acc) ==
    [k \in 1..Len(acc.ebs) |->
        [resourceId |-> acc.ebs[k].volumeId, service |-> "EBS",
         type |-> acc.ebs[k].volumeType,
         state |-> IF acc.ebs[k].attachments > 0 THEN "in-use"
                   ELSE "available",
         estimatedMonthlyCost |-> None]]

collectRDS(acc) ==
    [k \in 1..Len(acc.rds) |->
        [resourceId |-> acc.rds[k].dbInstanceId, service |-> "RDS",
         type |-> acc.rds[k].dbInstanceClass, state |-> acc.rds[k].status,
         estimatedMonthlyCost |-> None]]

collectLambda(acc) ==
    [k \in 1..Len(acc.lambda) |->
        [resourceId |-> acc.lambda[k].functionName, service |-> "Lambda",
         type |-> <<acc.lambda[k].runtime, acc.lambda[k].memoryMB>>,
         state |-> "Active", estimatedMonthlyCost |-> None]]

collectLoadBalancers(acc) ==
    [k \in 1..Len(acc.elbs) |->
        [resourceId |-> acc.elbs[k].loadBalancerName, service |-> "ELB",
         type |-> acc.elbs[k].type, state |-> acc.elbs[k].state,
         estimatedMonthlyCost |-> None]]

(* the NAT gateways and the Elastic IPs; the acc has no other resource *)
(* of the VPC collector                                                     *)
collectVPCResources(acc) ==
    [k \in 1..Len(acc.nats) |->
        [resourceId |-> acc.nats[k].natGatewayId, service |-> "VPC",
         type |-> "NATGateway", state |-> acc.nats[k].state,
         estimatedMonthlyCost |-> None]]
    \o
    [k \in 1..Len(acc.eips) |->
        [resourceId |-> acc.eips[k].allocationId, service |-> "VPC",
         type |-> "ElasticIP",
         state |-> IF IsSome(acc.eips[k].associationId) THEN "associated"
                   ELSE "unassociated",
         estimatedMonthlyCost |-> None]]

(* each of the three calls per bucket has its own try/catch and a default *)
collectS3(acc, failed) ==
    [k \in 1..Len(acc.buckets) |->
        LET b == acc.buckets[k]
        IN [resourceId |-> b.name, service |-> "S3", type |-> "Bucket",
            state |-> "active", estimatedMonthlyCost |-> None,
            tags |-> IF <<b.name, "GetBucketTagging">> \in failed THEN {}
                     ELSE b.tags,
            metadata |->
                [region |-> IF <<b.name, "GetBucketLocation">> \in failed
                            THEN DEFAULT_REGION ELSE b.region,
                 objectCount |-> IF <<b.name, "ListObjectsV2">> \in failed
                                 THEN 0 ELSE b.objectCount]]]

(* DescribeTable and resources.push are inside one try: a table whose       *)
(* description fails is skipped                                              *)
collectDynamoDB(acc, failed) ==
    LET described == SelectSeq(acc.tables,
                         LAMBDA t : <<t.name, "DescribeTable">> \notin failed)
    IN [k \in 1..Len(described) |->
           [resourceId |-> described[k].name, service |-> "DynamoDB",
            type |-> "PROVISIONED", state |-> described[k].status,
            estimatedMonthlyCost |-> None,
            metadata |-> [itemCount |-> described[k].itemCount]]]

(* GetQueueAttributes has its own try/catch; the push follows it *)
collectSQS(acc, failed) ==
    [k \in 1..Len(acc.queues) |->
        LET q == acc.queues[k]
        IN [resourceId |-> q.name, service |-> "SQS", type |-> "Standard Queue",
            state |-> "active", estimatedMonthlyCost |-> None,
            metadata |->
                IF <<q.name, "GetQueueAttributes">> \in failed
                THEN [queueUrl |-> q.name]
                ELSE [queueUrl |-> q.name,
                      approximateMessages |-> q.approximateMessages]]]

(* The records of a collector whose listing call succeeded; `failed` is the *)
(* set of per-resource calls that throw                                      *)
Collect(name, acc, failed) ==
    CASE name = "EC2" -> collectEC2(acc)
      [] name = "EBS" -> collectEBS(acc)
      [] name = "S3" -> collectS3(acc, failed)
      [] name = "RDS" -> collectRDS(acc)
      [] name = "Lambda" -> collectLambda(acc)
      [] name = "ELB" -> collectLoadBalancers(acc)
      [] name = "VPC" -> collectVPCResources(acc)
      [] name = "DynamoDB" -> collectDynamoDB(acc, failed)
      [] name = "SQS" -> collectSQS(acc, failed)
      [] OTHER -> <<>>

UpstreamError == "aws: request failed"

(* The settled promise of one collector.  `up` says which listing calls and *)
(* which per-resource calls throw.  A listing failure rejects the promise   *)
(* unless the collector catches it, and then the collector returns the      *)
(* records it has: none.                                                     *)
Settle(name, acc, up) ==
    IF name \in up.listing /\ name \notin SwallowingCollectors
    THEN [status |-> "rejected", reason |-> UpstreamError]
    ELSE [status |-> "fulfilled",
          value |-> IF name \in up.listing THEN <<>>
                    ELSE Collect(name, acc, up.enrich)]

Min(a, b) == IF a < b THEN a ELSE b

(* collectors.slice(i, i + batchSize) *)
Batch(start) ==
    SubSeq(CollectorNames, start + 1, Min(start + BatchSize, Len(CollectorNames)))

(* `${collectorName}: ${errMsg}` *)
ErrorEntry(collectorName, errMsg) == <<collectorName, ": ", errMsg>>

(* allResources.push(...result.value) for the fulfilled results, in order *)
RECURSIVE FulfilledValues(_)
FulfilledValues(results) ==
    IF results = <<>> THEN <<>>
    ELSE (IF Head(results).status = "fulfilled" THEN Head(results).value
          ELSE <<>>)
         \o FulfilledValues(Tail(results))

(* errors.push(...) for the rejected results, in order *)
RejectedDropped(batch, results) == <<>>

RECURSIVE RejectedEntries(_, _)
RejectedEntries(batch, results) ==
    IF results = <<>> THEN <<>>
    ELSE (IF Head(results).status = "rejected"
          THEN <<ErrorEntry(Head(batch), Head(results).reason)>> ELSE <<>>)
         \o RejectedEntries(Tail(batch), Tail(results))

(* The eight lists of the cloud client, finopsEngine.ts:621-634 *)
ClientLists(acc) ==
    [ec2 |-> acc.ec2, ebs |-> acc.ebs,
     s3 |-> [k \in 1..Len(acc.buckets) |->
                [bucketName |-> acc.buckets[k].name,
                 sizeBytes |-> acc.buckets[k].sizeGB,
                 objectCount |-> acc.buckets[k].objectCount,
                 lastAccessedDays |-> acc.buckets[k].lastAccessedDays,
                 storageClass |-> acc.buckets[k].storageClass]],
     rds |-> acc.rds, lambda |-> acc.lambda, elbs |-> acc.elbs,
     nats |-> acc.nats, eips |-> acc.eips]

(* resourcesToUpsert of runFinOpsEngine, finopsEngine.ts:638-727 *)
ResourcesToUpsert(lists) ==
    [k \in 1..Len(lists.ec2) |->
        [resourceId |-> lists.ec2[k].instanceId, service |-> "EC2",
         type |-> lists.ec2[k].instanceType, state |-> lists.ec2[k].state,
         estimatedMonthlyCost |-> getEc2InstanceCost(lists.ec2[k])]]
    \o
    [k \in 1..Len(lists.ebs) |->
        [resourceId |-> lists.ebs[k].volumeId, service |-> "EBS",
         type |-> lists.ebs[k].volumeType, state |-> lists.ebs[k].state,
         estimatedMonthlyCost |-> getEbsVolumeCost(lists.ebs[k])]]
    \o
    [k \in 1..Len(lists.s3) |->
        [resourceId |-> lists.s3[k].bucketName, service |-> "S3",
         type |-> "bucket", state |-> "available",
         estimatedMonthlyCost |-> getS3BucketCost(lists.s3[k])]]
    \o
    [k \in 1..Len(lists.rds) |->
        [resourceId |-> lists.rds[k].dbInstanceId, service |-> "RDS",
         type |-> lists.rds[k].dbInstanceClass, state |-> lists.rds[k].status,
         estimatedMonthlyCost |-> getRdsInstanceCost(lists.rds[k])]]
    \o
    [k \in 1..Len(lists.lambda) |->
        [resourceId |-> lists.lambda[k].functionName, service |-> "Lambda",
         type |-> <<lists.lambda[k].runtime, lists.lambda[k].memoryMB>>,
         state |-> IF lists.lambda[k].avgInvocationsPerDay > 0 THEN "active"
                   ELSE "inactive",
         estimatedMonthlyCost |-> getLambdaFunctionCost(lists.lambda[k])]]
    \o
    [k \in 1..Len(lists.elbs) |->
        [resourceId |-> lists.elbs[k].loadBalancerName, service |-> "ELB",
         type |-> lists.elbs[k].type, state |-> lists.elbs[k].state,
         estimatedMonthlyCost |-> getLoadBalancerCost(lists.elbs[k])]]
    \o
    [k \in 1..Len(lists.nats) |->
        [resourceId |-> lists.nats[k].natGatewayId, service |-> "VPC",
         type |-> "NATGateway", state |-> lists.nats[k].state,
         estimatedMonthlyCost |-> getNatGatewayCost(lists.nats[k])]]
    \o
    [k \in 1..Len(lists.eips) |->
        [resourceId |-> lists.eips[k].allocationId, service |-> "VPC",
         type |-> "ElasticIP",
         state |-> IF IsSome(lists.eips[k].associationId) THEN "associated"
                   ELSE "unassociated",
         estimatedMonthlyCost |-> getElasticIPCost(lists.eips[k])]]

RECURSIVE UpsertResourcesTx(_, _, _, _)
UpsertResourcesTx(tbl, w, rows, now) ==
    IF rows = <<>> THEN tbl
    ELSE UpsertResourcesTx(
             Put(tbl, <<w, Head(rows).resourceId>>,
                 EngineResourceRow(RowOf(tbl, <<w, Head(rows).resourceId>>),
                                   Head(rows), now)),
             w, Tail(rows), now)

(* recommendations of runFinOpsEngine, finopsEngine.ts:731-742 *)
Analyze(lists, cpuMetrics, now) ==
    analyzeEC2Downsizing(lists.ec2, cpuMetrics)
    \o analyzeEBSOrphaned(lists.ebs, now)
    \o analyzeS3Lifecycle(lists.s3)
    \o analyzeRDSDownsizing(lists.rds)
    \o analyzeLambdaOptimization(lists.lambda)
    \o analyzeELBIdle(lists.elbs)
    \o analyzeElasticIPUnused(lists.eips)
    \o analyzeNatGatewayIdle(lists.nats)

-----------------------------------------------------------------------------
(* The live cloud client, createRealAwsClients (part_007:73-119).  An       *)
(* AssumeRole call is known by its number in the order of issue; `issued`    *)
(* holds the state of the promise of each call, credentialsPromise the       *)
(* number of the cached promise (0: null), and ops the operations called on  *)
(* the client: the promise the operation awaits, the getCredentials calls it *)
(* has made, the credentials its service clients were built with, and the    *)
(* state of its own promise.                                                 *)
NoClient == [credentialsPromise |-> 0, issued |-> <<>>, ops |-> <<>>]

(* the operations of Promise.all in runFinOpsEngine, finopsEngine.ts:625-634 *)
ListOps ==
    <<"listEC2Instances", "listEBSVolumes", "listS3Buckets", "listRDSInstances",
      "listLambdaFunctions", "listLoadBalancers", "listNatGateways",
      "listElasticIPs">>

MetricsOp == "getEC2CpuMetrics"

(* The operations whose requests may throw in the model; a rejected         *)
(* AssumeRole rejects every operation                                        *)
FaultyOps == {"listEC2Instances", "listS3Buckets", MetricsOp}

(* The getCredentials calls of an operation that runs to its end: one per   *)
(* service client it builds, and listS3Buckets one more per bucket           *)
(* (part_007:128, 162, 232, 261, 289, 337-338, 430-431, 514-515, 606-607,    *)
(* 684)                                                                      *)
CredentialRequests(op, acc) ==
    CASE op = "listS3Buckets" -> 1 + Len(acc.buckets)
      [] op \in {"listRDSInstances", "listLambdaFunctions", "listLoadBalancers",
                 "listNatGateways"} -> 2
      [] OTHER -> 1

(* getCredentials, part_007:79-84: test and set without an await between *)
GetCredentialsUncached(client) ==
    [client EXCEPT !.issued = Append(@, "pending"),
                   !.credentialsPromise = Len(client.issued) + 1]

GetCredentials(client) ==
    IF client.credentialsPromise = 0
    THEN [client EXCEPT !.issued = Append(@, "pending"),
                        !.credentialsPromise = Len(client.issued) + 1]
    ELSE client

(* an operation is called: it runs to its first await, of getCredentials() *)
StartOp(client, op) ==
    LET c == GetCredentials(client)
    IN [c EXCEPT !.ops = Put(c.ops, op,
                             [awaiting |-> c.credentialsPromise, asked |-> 1,
                              creds |-> {}, status |-> "waiting"])]

RECURSIVE StartOps(_, _)
StartOps(client, ops) ==
    IF ops = <<>> THEN client
    ELSE StartOps(StartOp(client, Head(ops)), Tail(ops))

-----------------------------------------------------------------------------
(* Local variables of one runSchedulerTick invocation and of the frames it   *)
(* calls (processWorkspace, syncWorkspaceResources, runFinOpsEngine)         *)

LocInit ==
    [queue |-> <<>>,            \* workspaces of the for loop not yet processed
     workspace |-> None,        \* processWorkspace: const workspace
     jobId |-> 0,               \* processWorkspace: jobRun.id (0: none)
     allResources |-> <<>>,     \* sync: allResources
     errors |-> <<>>,           \* sync: errors
     batchStart |-> 0,          \* sync: i of the batch loop
     results |-> <<>>,          \* sync: results of the latest batch
     invoked |-> <<>>,          \* history: the collectors called so far
     inflight |-> {},           \* history: the collectors called and not settled
     upstream |-> None,         \* history: the calls that threw in the latest batch
     idx |-> 0,                 \* sync: position of the upsert loop
     syncResult |-> None,       \* processWorkspace: const syncResult
     syncError |-> None,        \* processWorkspace: catch (syncErr)
     lists |-> None,            \* engine: the lists of Promise.all
     cpuMetrics |-> <<>>,       \* engine: cpuMetrics
     client |-> NoClient,       \* processWorkspace: const clients (live client)
     instanceIds |-> {},        \* engine: instanceIds (live client, step by step)
     recommendations |-> <<>>,  \* processWorkspace: const recommendations
     upsertCount |-> 0,         \* processWorkspace: let upsertCount
     error |-> None]            \* processWorkspace: catch (error)

(* The message of the exception an awaited call throws, by the call *)
AssumeRoleError == "sts: AssumeRole failed"

ErrorOf(at) ==
    CASE at = "sync_findUnique" -> "db: workspace findUnique failed"
      [] at = "sync_assumeRole" -> AssumeRoleError
      [] at = "sync_sweep" -> "db: resource updateMany failed"
      [] at = "engine_assumeRole" -> AssumeRoleError
      [] at = "engine_list" -> "aws: list call failed"
      [] at = "engine_metrics" -> "aws: getEC2CpuMetrics failed"
      [] at = "engine_upsert" -> "db: resource upsert transaction failed"
      [] at = "rec_upsert" -> "db: recommendation upsert failed"
      [] at = "ws_update" -> "db: workspace update failed"
      [] at = "job_complete" -> "db: jobRun update failed"

UpsertErrors == {ErrorOf("engine_upsert"), ErrorOf("rec_upsert")}

-----------------------------------------------------------------------------
(* The database the process starts on *)

NoRows == [k \in {} |-> 0]

(* The process starts (startScheduler) on a database nothing was written to  *)
InitEmpty ==
    /\ clock = 0
    /\ awsMock \in BOOLEAN
    /\ account = Account
    /\ isRunning = FALSE
    /\ workspaces = NoRows
    /\ jobRuns = <<>>
    /\ resources = NoRows
    /\ recs = NoRows
    /\ pc = [i \in Inv |-> "idle"]
    /\ loc = [i \in Inv |-> LocInit]
    /\ skipped = 0
    /\ gone = {}

(* The rows a completed job of workspace w leaves when it ran at time t, and *)
(* an instance "i-gone" that was seen at t and has been terminated since     *)
SeedLists == ClientLists(Account)

SeedResources(w, t) ==
    Put(UpsertResourcesTx(NoRows, w, ResourcesToUpsert(SeedLists), t),
        <<w, "i-gone">>,
        [service |-> "EC2", type |-> "t3.micro", state |-> "running",
         estimatedMonthlyCost |-> 0, lastSeenAt |-> t, createdAt |-> t])

RECURSIVE UpsertRecommendations(_, _, _)
UpsertRecommendations(tbl, w, out) ==
    IF out = <<>> THEN tbl
    ELSE UpsertRecommendations(UpsertRecommendation(tbl, w, Head(out)), w, Tail(out))

SeedRecs(w, t) == UpsertRecommendations(NoRows, w, Analyze(SeedLists, MockCpuMetrics, t))

SeedJobRun(w, t) ==
    JobCompletedData(JobRunCreateData(w, t), Len(Analyze(SeedLists, MockCpuMetrics, t)), t)

(* The process starts on the database of an earlier process: workspace w1    *)
(* was either just created (pending, no rows), or scanned `age` hours ago    *)
(* and has failed a connection test since (status error)                     *)
InitRestartOn(acc) ==
    /\ clock = 0
    /\ awsMock \in BOOLEAN
    /\ account = acc
    /\ isRunning = FALSE
    /\ \/ /\ workspaces = [w \in {"w1"} |-> [status |-> "pending"]]
          /\ jobRuns = <<>>
          /\ resources = NoRows
          /\ recs = NoRows
       \/ \E age \in 1..SeedAgeHours :
             /\ workspaces = [w \in {"w1"} |-> [status |-> "error"]]
             /\ jobRuns = <<SeedJobRun("w1", 0 - age)>>
             /\ resources = SeedResources("w1", 0 - age)
             /\ recs = SeedRecs("w1", 0 - age)
    /\ pc = [i \in Inv |-> "idle"]
    /\ loc = [i \in Inv |-> LocInit]
    /\ skipped = 0
    /\ gone = {}

InitRestart == InitRestartOn(Account)

Init == InitEmpty \/ InitRestart

-----------------------------------------------------------------------------
(* runSchedulerTick, scheduler.ts:124-153 *)

(* if (isRunning) { log; return } *)
GuardNeverBlocks == FALSE

GuardBlocks == isRunning

DbUnchanged == UNCHANGED <<workspaces, jobRuns, resources, recs>>

(* Invocations are interchangeable: a new one takes the lowest free slot *)
FreeSlot(i) == pc[i] = "idle" /\ \A j \in Inv : j < i => pc[j] /= "idle"

TickSkip(i) ==
    /\ FreeSlot(i)
    /\ GuardBlocks
    /\ skipped < MaxSkips
    /\ skipped' = skipped + 1
    /\ UNCHANGED <<clock, awsMock, account, gone, isRunning, pc, loc>>
    /\ DbUnchanged

TickStart(i) ==
    /\ FreeSlot(i)
    /\ ~GuardBlocks
    /\ Len(jobRuns) < MaxJobs
    /\ isRunning' = TRUE
    /\ pc' = [pc EXCEPT ![i] = "findMany"]
    /\ UNCHANGED <<clock, awsMock, account, gone, loc, skipped>>
    /\ DbUnchanged

(* The tick returns: catch (log) and finally (isRunning = false) *)
TickExitKeepsFlagOnError(i, kind) ==
    /\ isRunning' = (kind = "error")
    /\ pc' = [pc EXCEPT ![i] = "idle"]
    /\ loc' = [loc EXCEPT ![i] = LocInit]

TickExit(i, kind) ==
    /\ isRunning' = FALSE
    /\ pc' = [pc EXCEPT ![i] = "idle"]
    /\ loc' = [loc EXCEPT ![i] = LocInit]

(* An awaited call outside processWorkspace's try throws: workspace.findMany, *)
(* workspace.findUnique, jobRun.create, or jobRun.update of the catch branch  *)
TickThrows(i) ==
    /\ pc[i] \in {"findMany", "pw_findUnique", "pw_createJob", "pw_markFailed"}
    /\ TickExit(i, "error")
    /\ UNCHANGED <<clock, awsMock, account, gone, skipped>>
    /\ DbUnchanged

FindMany(i) ==
    /\ pc[i] = "findMany"
    /\ IF DOMAIN workspaces = {}
       THEN TickExit(i, "empty")
       ELSE /\ \E q \in Orders(DOMAIN workspaces) :
                 loc' = [loc EXCEPT ![i].queue = q]
            /\ pc' = [pc EXCEPT ![i] = "pw_findUnique"]
            /\ UNCHANGED isRunning
    /\ UNCHANGED <<clock, awsMock, account, gone, skipped>>
    /\ DbUnchanged

-----------------------------------------------------------------------------
(* processWorkspace, scheduler.ts:12-119 *)

CurWs(i) == Val(loc[i].workspace).id

PwFindUniqueIgnoresAbsent(i) ==
    /\ pc[i] = "pw_findUnique"
    /\ LET w == Head(loc[i].queue) IN
          loc' = [loc EXCEPT ![i].workspace =
                     Some([id |-> w,
                           status |-> IF w \in DOMAIN workspaces
                                      THEN workspaces[w].status ELSE "pending"])]
    /\ pc' = [pc EXCEPT ![i] = "pw_createJob"]
    /\ UNCHANGED <<clock, awsMock, account, gone, isRunning, skipped>>
    /\ DbUnchanged

PwFindUnique(i) ==
    /\ pc[i] = "pw_findUnique"
    /\ LET w == Head(loc[i].queue) IN
       IF w \in DOMAIN workspaces
       THEN /\ loc' = [loc EXCEPT ![i].workspace =
                          Some([id |-> w, status |-> workspaces[w].status])]
            /\ pc' = [pc EXCEPT ![i] = "pw_createJob"]
       ELSE /\ pc' = [pc EXCEPT ![i] = "pw_return"]
            /\ UNCHANGED loc
    /\ UNCHANGED <<clock, awsMock, account, gone, isRunning, skipped>>
    /\ DbUnchanged

PwCreateJob(i) ==
    /\ pc[i] = "pw_createJob"
    /\ Len(jobRuns) < MaxJobs
    /\ CurWs(i) \in DOMAIN workspaces    \* JobRun_workspaceId_fkey
    /\ jobRuns' = Append(jobRuns, JobRunCreateData(CurWs(i), clock))
    /\ loc' = [loc EXCEPT ![i].jobId = Len(jobRuns) + 1]
    /\ pc' = [pc EXCEPT ![i] = "sync_findUnique"]
    /\ UNCHANGED <<clock, awsMock, account, gone, isRunning, workspaces, resources, recs,
                   skipped>>

(* syncWorkspaceResources, costsService.ts:1114-1238 *)

(* workspace lookup, AssumeRole or the stale sweep's updateMany throws: the  *)
(* sync rejects and processWorkspace's inner catch (scheduler.ts:41) logs it *)
SyncFailureAbortsJob == "pw_markFailed"

AfterSyncFailure == "engine_list"

SyncThrows(i) ==
    /\ pc[i] \in {"sync_findUnique", "sync_assumeRole", "sync_sweep"}
    /\ loc' = [loc EXCEPT ![i].allResources = <<>>, ![i].errors = <<>>,
                          ![i].idx = 0, ![i].invoked = <<>>,
                          ![i].results = <<>>, ![i].upstream = None,
                          ![i].syncError = Some(ErrorOf(pc[i]))]
    /\ pc' = [pc EXCEPT ![i] = AfterSyncFailure]
    /\ UNCHANGED <<clock, awsMock, account, gone, isRunning, skipped>>
    /\ DbUnchanged

SyncFindUnique(i) ==
    /\ pc[i] = "sync_findUnique"
    /\ CurWs(i) \in DOMAIN workspaces
    /\ pc' = [pc EXCEPT ![i] = "sync_assumeRole"]
    /\ UNCHANGED <<clock, awsMock, account, gone, isRunning, loc, skipped>>
    /\ DbUnchanged

SyncAssumeRole(i) ==
    /\ pc[i] = "sync_assumeRole"
    /\ pc' = [pc EXCEPT ![i] = "sync_collect"]
    /\ UNCHANGED <<clock, awsMock, account, gone, isRunning, loc, skipped>>
    /\ DbUnchanged

(* One batch of the collector loop: await Promise.allSettled(...) and the   *)
(* loop over its results, costsService.ts:1152-1173.  byService is only     *)
(* logged and returned; it is left out.                                      *)
SyncCollectFrom(i, faulty) ==
    /\ pc[i] = "sync_collect"
    /\ LET start == loc[i].batchStart
           batch == Batch(start)
           names == {batch[j] : j \in 1..Len(batch)}
       IN \E listing \in SUBSET (faulty \cap names) :
          \E enrich \in SUBSET UNION {EnrichCalls(name, account) :
                                         name \in names \ listing} :
             LET up == [listing |-> listing, enrich |-> enrich]
                 results == [j \in 1..Len(batch) |-> Settle(batch[j], account, up)]
                 all == loc[i].allResources \o FulfilledValues(results)
                 done == start + BatchSize >= Len(CollectorNames)
             IN /\ loc' = [loc EXCEPT
                              ![i].allResources = all,
                              ![i].errors = loc[i].errors
                                            \o RejectedEntries(batch, results),
                              ![i].results = results,
                              ![i].invoked = loc[i].invoked \o batch,
                              ![i].upstream = Some(up),
                              ![i].batchStart = IF done THEN 0
                                                ELSE start + BatchSize,
                              ![i].idx = IF done THEN 1 ELSE 0]
                /\ pc' = [pc EXCEPT ![i] = IF ~done THEN "sync_collect"
                                           ELSE IF all = <<>> THEN "sync_sweep"
                                           ELSE "sync_upsert"]
    /\ UNCHANGED <<clock, awsMock, account, gone, isRunning, skipped>>
    /\ DbUnchanged

SyncCollect(i) == SyncCollectFrom(i, FaultyCollectors)

(* the same where every listing call and every call per resource may fail  *)
SyncCollectWide(i) == SyncCollectFrom(i, AllCollectors)

(* The same batch step by step.  batch.map(c => c.fn()) calls the collectors *)
(* of the slice one after the other without an await in between: each runs   *)
(* to its first request, so the whole slice is in flight when the loop        *)
(* awaits Promise.allSettled (costsService.ts:1154-1155).                     *)
PendingPromise == [status |-> "pending"]

SyncBatchStart(i) ==
    /\ pc[i] = "sync_collect"
    /\ LET batch == Batch(loc[i].batchStart)
       IN loc' = [loc EXCEPT
                     ![i].results = [j \in 1..Len(batch) |-> PendingPromise],
                     ![i].inflight = loc[i].inflight
                                     \cup {batch[j] : j \in 1..Len(batch)},
                     ![i].invoked = loc[i].invoked \o batch]
    /\ pc' = [pc EXCEPT ![i] = "sync_await"]
    /\ UNCHANGED <<clock, awsMock, account, gone, isRunning, skipped>>
    /\ DbUnchanged

(* the promise of the j-th collector of the batch settles, in any order:    *)
(* fulfilled with its records, or rejected when its listing call throws      *)
CollectorSettles(i, j) ==
    /\ pc[i] = "sync_await"
    /\ j \in 1..Len(loc[i].results)
    /\ loc[i].results[j].status = "pending"
    /\ LET name == Batch(loc[i].batchStart)[j]
       IN \E listing \in SUBSET {name} :
             loc' = [loc EXCEPT
                        ![i].results[j] =
                            Settle(name, account,
                                   [listing |-> listing, enrich |-> {}]),
                        ![i].inflight = loc[i].inflight \ {name}]
    /\ UNCHANGED <<clock, awsMock, account, gone, isRunning, pc, skipped>>
    /\ DbUnchanged

AllSettledAtOnce(results) == TRUE

(* Promise.allSettled resolves when no promise of the batch is pending *)
AllSettled(results) ==
    \A j \in 1..Len(results) : results[j].status /= "pending"

(* the await returns: the loop over the results, then the next slice *)
SyncBatchAwait(i) ==
    /\ pc[i] = "sync_await"
    /\ AllSettled(loc[i].results)
    /\ LET start == loc[i].batchStart
           batch == Batch(start)
           results == loc[i].results
           all == loc[i].allResources \o FulfilledValues(results)
           done == start + BatchSize >= Len(CollectorNames)
       IN /\ loc' = [loc EXCEPT
                        ![i].allResources = all,
                        ![i].errors = loc[i].errors
                                      \o RejectedEntries(batch, results),
                        ![i].batchStart = IF done THEN 0 ELSE start + BatchSize,
                        ![i].idx = IF done THEN 1 ELSE 0]
          /\ pc' = [pc EXCEPT ![i] = IF ~done THEN "sync_collect"
                                     ELSE IF all = <<>> THEN "sync_sweep"
                                     ELSE "sync_upsert"]
    /\ UNCHANGED <<clock, awsMock, account, gone, isRunning, skipped>>
    /\ DbUnchanged

AfterSyncUpsert(i) ==
    /\ loc' = [loc EXCEPT ![i].idx = loc[i].idx + 1, ![i].results = <<>>,
                          ![i].upstream = None]
    /\ pc' = [pc EXCEPT ![i] = IF loc[i].idx = Len(loc[i].allResources)
                               THEN "sync_sweep" ELSE "sync_upsert"]

SyncUpsert(i) ==
    /\ pc[i] = "sync_upsert"
    /\ LET r == loc[i].allResources[loc[i].idx]
           k == <<CurWs(i), r.resourceId>>
       IN resources' = Put(resources, k, SyncResourceRow(RowOf(resources, k), r, clock))
    /\ AfterSyncUpsert(i)
    /\ UNCHANGED <<clock, awsMock, account, gone, isRunning, workspaces, jobRuns, recs,
                   skipped>>

(* the upsert throws: caught and logged at costsService.ts:1212-1215 *)
SyncUpsertFails(i) ==
    /\ pc[i] = "sync_upsert"
    /\ AfterSyncUpsert(i)
    /\ UNCHANGED <<clock, awsMock, account, gone, isRunning, skipped>>
    /\ DbUnchanged

(* the stale sweep commits and the sync's promise resolves with its result *)
SyncSweep(i) ==
    /\ pc[i] = "sync_sweep"
    /\ resources' = StaleSweep(resources, CurWs(i), clock - OneHour)
    /\ loc' = [loc EXCEPT ![i].allResources = <<>>, ![i].errors = <<>>,
                          ![i].idx = 0, ![i].invoked = <<>>,
                          ![i].results = <<>>, ![i].upstream = None,
                          ![i].syncResult =
                              Some([total |-> Len(loc[i].allResources),
                                    errors |-> loc[i].errors])]
    /\ pc' = [pc EXCEPT ![i] = "engine_list"]
    /\ UNCHANGED <<clock, awsMock, account, gone, isRunning, workspaces, jobRuns, recs,
                   skipped>>

(* runFinOpsEngine, finopsEngine.ts:617-743 *)

(* An awaited call inside processWorkspace's try (and outside the sync)      *)
(* throws: the catch at scheduler.ts:102 takes the exception.  The mock      *)
(* client's calls never fail.                                                *)
JobThrows(i) ==
    /\ pc[i] \in {"engine_list", "engine_metrics", "engine_upsert", "rec_upsert",
                  "ws_update", "job_complete"}
    /\ pc[i] \in {"engine_list", "engine_metrics"} => ~awsMock
    /\ loc' = [loc EXCEPT ![i].error = Some(ErrorOf(pc[i]))]
    /\ pc' = [pc EXCEPT ![i] = "pw_markFailed"]
    /\ UNCHANGED <<clock, awsMock, account, gone, isRunning, skipped>>
    /\ DbUnchanged

(* The live client assumes the role when the first list call asks for     *)
(* credentials (part_007:79-84); the rejection fails every list call and,   *)
(* through Promise.all, runFinOpsEngine.  The mock client assumes no role.  *)
EngineAssumeRoleIgnored(i) ==
    /\ pc[i] = "engine_list"
    /\ ~awsMock
    /\ loc' = [loc EXCEPT ![i].error = Some(ErrorOf("engine_assumeRole"))]
    /\ pc' = [pc EXCEPT ![i] = "engine_metrics"]
    /\ UNCHANGED <<clock, awsMock, account, gone, isRunning, skipped>>
    /\ DbUnchanged

EngineAssumeRoleFails(i) ==
    /\ pc[i] = "engine_list"
    /\ ~awsMock
    /\ loc' = [loc EXCEPT ![i].error = Some(ErrorOf("engine_assumeRole"))]
    /\ pc' = [pc EXCEPT ![i] = "pw_markFailed"]
    /\ UNCHANGED <<clock, awsMock, account, gone, isRunning, skipped>>
    /\ DbUnchanged

(* The list calls of the live client step by step.  Promise.all calls the  *)
(* eight operations one after the other; each runs to its first await.       *)
ClientListStart(i) ==
    /\ pc[i] = "engine_list"
    /\ ~awsMock
    /\ loc' = [loc EXCEPT ![i].client = StartOps(NoClient, ListOps)]
    /\ pc' = [pc EXCEPT ![i] = "engine_listing"]
    /\ UNCHANGED <<clock, awsMock, account, gone, isRunning, skipped>>
    /\ DbUnchanged

(* sts.send of an AssumeRole call returns or throws (part_007:51-71) *)
ClientAssumeRoleSettles(i) ==
    /\ \E n \in 1..Len(loc[i].client.issued) :
          /\ loc[i].client.issued[n] = "pending"
          /\ \E outcome \in {"fulfilled", "rejected"} :
                loc' = [loc EXCEPT ![i].client.issued[n] = outcome]
    /\ UNCHANGED <<clock, awsMock, account, gone, isRunning, pc, skipped>>
    /\ DbUnchanged

(* An operation resumes from await getCredentials(): the rejection of the   *)
(* promise rejects the operation; with the credentials it builds a service   *)
(* client and either asks for credentials again or sends its requests to     *)
(* the end, which return or throw.                                           *)
ClientOpResumes(i, op) ==
    /\ op \in DOMAIN loc[i].client.ops
    /\ LET client == loc[i].client
           o == client.ops[op]
       IN /\ o.status = "waiting"
          /\ client.issued[o.awaiting] /= "pending"
          /\ IF client.issued[o.awaiting] = "rejected"
             THEN loc' = [loc EXCEPT ![i].client.ops[op].status = "rejected"]
             ELSE IF o.asked < CredentialRequests(op, account)
             THEN LET c == GetCredentials(client)
                  IN loc' = [loc EXCEPT ![i].client =
                                [c EXCEPT !.ops[op] =
                                    [awaiting |-> c.credentialsPromise,
                                     asked |-> o.asked + 1,
                                     creds |-> o.creds \cup {o.awaiting},
                                     status |-> "waiting"]]]
             ELSE \E outcome \in {"fulfilled"} \cup
                                  (IF op \in FaultyOps THEN {"rejected"} ELSE {}) :
                     loc' = [loc EXCEPT ![i].client.ops[op] =
                                [o EXCEPT !.creds = o.creds \cup {o.awaiting},
                                          !.status = outcome]]
    /\ UNCHANGED <<clock, awsMock, account, gone, isRunning, pc, skipped>>
    /\ DbUnchanged

OpsIn(client, status) ==
    {n \in 1..Len(ListOps) : client.ops[ListOps[n]].status = status}

(* Promise.all rejects with the first rejection, the other operations go on *)
EngineListRejectionIgnored(i) ==
    /\ pc[i] = "engine_listing"
    /\ OpsIn(loc[i].client, "rejected") /= {}
    /\ loc' = [loc EXCEPT ![i].lists = Some(ClientLists(account))]
    /\ pc' = [pc EXCEPT ![i] = "engine_upsert"]
    /\ UNCHANGED <<clock, awsMock, account, gone, isRunning, skipped>>
    /\ DbUnchanged

EngineListRejects(i) ==
    /\ pc[i] = "engine_listing"
    /\ OpsIn(loc[i].client, "rejected") /= {}
    /\ loc' = [loc EXCEPT ![i].error =
                  Some(IF \E n \in 1..Len(loc[i].client.issued) :
                             loc[i].client.issued[n] = "rejected"
                       THEN ErrorOf("engine_assumeRole")
                       ELSE ErrorOf("engine_list"))]
    /\ pc' = [pc EXCEPT ![i] = "pw_markFailed"]
    /\ UNCHANGED <<clock, awsMock, account, gone, isRunning, skipped>>
    /\ DbUnchanged

(* Promise.all fulfils; getEC2CpuMetrics is called with the listed ids and  *)
(* returns [] at once for no ids (part_007:159-162)                          *)
EngineListSettled(i) ==
    /\ pc[i] = "engine_listing"
    /\ OpsIn(loc[i].client, "fulfilled") = 1..Len(ListOps)
    /\ LET lists == ClientLists(account)
       IN IF lists.ec2 = <<>>
          THEN /\ loc' = [loc EXCEPT ![i].lists = Some(lists)]
               /\ pc' = [pc EXCEPT ![i] = "engine_upsert"]
          ELSE /\ loc' = [loc EXCEPT ![i].lists = Some(lists),
                                     ![i].instanceIds =
                                         {lists.ec2[k].instanceId :
                                             k \in 1..Len(lists.ec2)},
                                     ![i].client = StartOp(loc[i].client, MetricsOp)]
               /\ pc' = [pc EXCEPT ![i] = "engine_metricsWait"]
    /\ UNCHANGED <<clock, awsMock, account, gone, isRunning, skipped>>
    /\ DbUnchanged

(* await clients.getEC2CpuMetrics(instanceIds) returns or throws *)
ClientMetricsSettled(i) ==
    /\ pc[i] = "engine_metricsWait"
    /\ LET o == loc[i].client.ops[MetricsOp]
           ids == loc[i].instanceIds
       IN /\ o.status /= "waiting"
          /\ IF o.status = "fulfilled"
             THEN /\ loc' = [loc EXCEPT ![i].cpuMetrics =
                                SelectSeq(account.cpuMetrics,
                                          LAMBDA m : m.instanceId \in ids)]
                  /\ pc' = [pc EXCEPT ![i] = "engine_upsert"]
             ELSE /\ loc' = [loc EXCEPT ![i].error =
                                Some(ErrorOf("engine_metrics"))]
                  /\ pc' = [pc EXCEPT ![i] = "pw_markFailed"]
    /\ UNCHANGED <<clock, awsMock, account, gone, isRunning, skipped>>
    /\ DbUnchanged

EngineList(i) ==
    /\ pc[i] = "engine_list"
    /\ loc' = [loc EXCEPT ![i].lists =
                  Some(ClientLists(IF awsMock THEN Account ELSE account))]
    /\ pc' = [pc EXCEPT ![i] = "engine_metrics"]
    /\ UNCHANGED <<clock, awsMock, account, gone, isRunning, skipped>>
    /\ DbUnchanged

EngineMetrics(i) ==
    /\ pc[i] = "engine_metrics"
    /\ LET ids == {Val(loc[i].lists).ec2[k].instanceId :
                      k \in 1..Len(Val(loc[i].lists).ec2)}
       IN loc' = [loc EXCEPT ![i].cpuMetrics =
                     SelectSeq(IF awsMock THEN MockCpuMetrics
                               ELSE account.cpuMetrics,
                               LAMBDA m : m.instanceId \in ids)]
    /\ pc' = [pc EXCEPT ![i] = "engine_upsert"]
    /\ UNCHANGED <<clock, awsMock, account, gone, isRunning, skipped>>
    /\ DbUnchanged

(* prisma.$transaction of upsertResources commits; the analyzers run *)
EngineUpsert(i) ==
    /\ pc[i] = "engine_upsert"
    /\ resources' = UpsertResourcesTx(resources, CurWs(i),
                                      ResourcesToUpsert(Val(loc[i].lists)), clock)
    /\ LET out == Analyze(Val(loc[i].lists), loc[i].cpuMetrics, clock) IN
          /\ loc' = [loc EXCEPT ![i].recommendations = out]
          /\ pc' = [pc EXCEPT ![i] = IF out = <<>> THEN "ws_update" ELSE "rec_upsert"]
    /\ UNCHANGED <<clock, awsMock, account, gone, isRunning, workspaces, jobRuns, recs,
                   skipped>>

RecUpsert(i) ==
    /\ pc[i] = "rec_upsert"
    /\ recs' = UpsertRecommendation(recs, CurWs(i),
                                    loc[i].recommendations[loc[i].upsertCount + 1])
    /\ loc' = [loc EXCEPT ![i].upsertCount = loc[i].upsertCount + 1]
    /\ pc' = [pc EXCEPT ![i] =
                 IF loc[i].upsertCount + 1 = Len(loc[i].recommendations)
                 THEN "ws_update" ELSE "rec_upsert"]
    /\ UNCHANGED <<clock, awsMock, account, gone, isRunning, workspaces, jobRuns, resources,
                   skipped>>

WsUpdate(i) ==
    /\ pc[i] = "ws_update"
    /\ CurWs(i) \in DOMAIN workspaces
    /\ workspaces' = [workspaces EXCEPT ![CurWs(i)].status = "connected"]
    /\ pc' = [pc EXCEPT ![i] = "job_complete"]
    /\ UNCHANGED <<clock, awsMock, account, gone, isRunning, jobRuns, resources, recs, loc,
                   skipped>>

JobComplete(i) ==
    /\ pc[i] = "job_complete"
    /\ jobRuns' = [jobRuns EXCEPT ![loc[i].jobId] =
                      JobCompletedData(@, loc[i].upsertCount, clock)]
    /\ pc' = [pc EXCEPT ![i] = "pw_return"]
    /\ UNCHANGED <<clock, awsMock, account, gone, isRunning, workspaces, resources, recs, loc,
                   skipped>>

JobMarkFailed(i) ==
    /\ pc[i] = "pw_markFailed"
    /\ jobRuns' = [jobRuns EXCEPT ![loc[i].jobId] =
                      JobFailedData(@, Val(loc[i].error), clock)]
    /\ pc' = [pc EXCEPT ![i] = "pw_return"]
    /\ UNCHANGED <<clock, awsMock, account, gone, isRunning, workspaces, resources, recs, loc,
                   skipped>>

JobStatus(i) == IF loc[i].jobId = 0 THEN "none" ELSE jobRuns[loc[i].jobId].status

(* processWorkspace's promise resolves: the for loop of the tick goes on *)
PwReturn(i) ==
    /\ pc[i] = "pw_return"
    /\ IF Len(loc[i].queue) = 1
       THEN TickExit(i, "done")
       ELSE /\ loc' = [loc EXCEPT ![i] = [LocInit EXCEPT !.queue = Tail(loc[i].queue)]]
            /\ pc' = [pc EXCEPT ![i] = "pw_findUnique"]
            /\ UNCHANGED isRunning
    /\ UNCHANGED <<clock, awsMock, account, gone, skipped>>
    /\ DbUnchanged

-----------------------------------------------------------------------------
(* HTTP routes and the clock *)

(* PATCH /api/recommendations/:id, routes/workspaces.ts:345-382 *)
PatchRecommendation ==
    /\ \E k \in DOMAIN recs, s \in {"new", "acknowledged", "dismissed"} :
          recs' = [recs EXCEPT ![k].status = s]
    /\ UNCHANGED <<clock, awsMock, account, gone, isRunning, workspaces, jobRuns, resources,
                   pc, loc, skipped>>

(* POST /api/workspaces, routes/workspaces.ts:9-52.  Ids are generated and    *)
(* interchangeable: the new row takes the first id never used.               *)
CreateWorkspace ==
    /\ \E n \in 1..Len(WorkspaceIds) :
          /\ WorkspaceIds[n] \notin DOMAIN workspaces \cup gone
          /\ \A m \in 1..(n - 1) : WorkspaceIds[m] \in DOMAIN workspaces \cup gone
          /\ workspaces' = Put(workspaces, WorkspaceIds[n], [status |-> "pending"])
    /\ UNCHANGED <<clock, awsMock, account, gone, isRunning, jobRuns, resources, recs,
                   pc, loc, skipped>>

(* The Workspace row is deleted by another client of the database (no route  *)
(* of the program deletes one).  The foreign keys of JobRun, Resource and    *)
(* Recommendation are ON DELETE RESTRICT: only a workspace without such rows *)
(* can be deleted.                                                           *)
HasRows(w) ==
    \/ \E j \in 1..Len(jobRuns) : jobRuns[j].workspaceId = w
    \/ \E k \in DOMAIN resources : k[1] = w
    \/ \E k \in DOMAIN recs : k[1] = w

DeleteWorkspace ==
    /\ \E w \in DOMAIN workspaces :
          /\ ~HasRows(w)
          /\ workspaces' = [x \in DOMAIN workspaces \ {w} |-> workspaces[x]]
          /\ gone' = gone \cup {w}
    /\ UNCHANGED <<clock, awsMock, account, isRunning, jobRuns, resources, recs,
                   pc, loc, skipped>>

AdvanceClock ==
    /\ clock < MaxClock
    /\ clock' = clock + 1
    /\ UNCHANGED <<awsMock, account, gone, isRunning, workspaces, jobRuns, resources, recs,
                   pc, loc, skipped>>

JobStepButCollect(i) ==
    \/ TickThrows(i) \/ FindMany(i)
    \/ PwFindUnique(i) \/ PwCreateJob(i) \/ SyncThrows(i)
    \/ SyncFindUnique(i) \/ SyncAssumeRole(i)
    \/ SyncUpsert(i) \/ SyncUpsertFails(i) \/ SyncSweep(i)
    \/ JobThrows(i) \/ EngineList(i) \/ EngineMetrics(i) \/ EngineUpsert(i)
    \/ RecUpsert(i) \/ WsUpdate(i) \/ JobComplete(i) \/ JobMarkFailed(i)
    \/ PwReturn(i)

JobStepAnyClient(i) == JobStepButCollect(i) \/ SyncCollect(i)

JobStep(i) == JobStepAnyClient(i) \/ EngineAssumeRoleFails(i)

Next ==
    \/ \E i \in Inv : TickSkip(i) \/ TickStart(i) \/ JobStep(i)
    \/ PatchRecommendation
    \/ CreateWorkspace
    \/ DeleteWorkspace
    \/ AdvanceClock

(* The whole program *)
Spec == Init /\ [][Next]_vars

(* The scheduler: every interleaving of tick invocations, workspace creation *)
(* and failures, from an empty database, within one hour of wall clock, with *)
(* the mock client (whose calls never fail; the inventory sync and the       *)
(* database can)                                                             *)
NextSched ==
    \/ \E i \in Inv : TickSkip(i) \/ TickStart(i) \/ JobStepAnyClient(i)
    \/ CreateWorkspace

InitSched == InitEmpty /\ awsMock = TRUE

SpecSched == InitSched /\ [][NextSched]_vars

(* One job in full: the first tick of a process started on an earlier        *)
(* process's database, interleaved with the clock, failures and the user's   *)
(* status changes                                                            *)
FirstTick == \A j \in 1..Len(jobRuns) : jobRuns[j].startedAt < 0

(* One tick in full from an empty database, interleaved with the creation   *)
(* and the deletion of workspaces                                            *)
NextGone ==
    \/ \E i \in Inv : (FirstTick /\ TickStart(i)) \/ JobStep(i)
    \/ CreateWorkspace
    \/ DeleteWorkspace

SpecGone == InitEmpty /\ [][NextGone]_vars

(* The inventory sync in full: one tick on a workspace that was just        *)
(* created, with the mock client for the analysis path, on an account where  *)
(* every call of the sixteen collectors may fail                             *)
NextSync ==
    \E i \in Inv : (FirstTick /\ TickStart(i)) \/ JobStepButCollect(i)
                       \/ SyncCollectWide(i)

InitSync ==
    /\ InitRestartOn(WideAccount)
    /\ awsMock = TRUE
    /\ resources = NoRows

SpecSync == InitSync /\ [][NextSync]_vars

(* The same tick with the collectors of a batch settling one by one, in    *)
(* any order; only the listing calls fail                                    *)
NextBatch ==
    \E i \in Inv :
       \/ FirstTick /\ TickStart(i)
       \/ JobStepButCollect(i)
       \/ SyncBatchStart(i)
       \/ \E j \in 1..BatchSize : CollectorSettles(i, j)
       \/ SyncBatchAwait(i)

SpecBatch == InitSync /\ [][NextBatch]_vars

(* One job of the live client with its operations resuming one by one, in  *)
(* any order, around the AssumeRole call; the calls after the metric fetch   *)
(* do not fail                                                               *)
NextClient ==
    \E i \in Inv :
       \/ FirstTick /\ TickStart(i)
       \/ FindMany(i) \/ PwFindUnique(i) \/ PwCreateJob(i)
       \/ SyncThrows(i) \/ SyncFindUnique(i) \/ SyncAssumeRole(i) \/ SyncCollect(i)
       \/ SyncUpsert(i) \/ SyncSweep(i)
       \/ ClientListStart(i) \/ ClientAssumeRoleSettles(i)
       \/ \E op \in DOMAIN loc[i].client.ops : ClientOpResumes(i, op)
       \/ EngineListRejects(i) \/ EngineListSettled(i) \/ ClientMetricsSettled(i)
       \/ EngineUpsert(i) \/ RecUpsert(i) \/ WsUpdate(i) \/ JobComplete(i)
       \/ JobMarkFailed(i) \/ PwReturn(i)

InitClient ==
    /\ InitRestartOn(WideAccount)
    /\ awsMock = FALSE
    /\ resources = NoRows

SpecClient == InitClient /\ [][NextClient]_vars

(* The analysis path on its inputs: one tick of the live client on a        *)
(* workspace that was just created, for every account of AnalyzerAccounts   *)
NextAnalyze == \E i \in Inv : (FirstTick /\ TickStart(i)) \/ JobStep(i)

InitAnalyze ==
    \E acc \in AnalyzerAccounts :
       /\ InitRestartOn(acc)
       /\ awsMock = FALSE
       /\ resources = NoRows

SpecAnalyze == InitAnalyze /\ [][NextAnalyze]_vars

NextJob ==
    \/ \E i \in Inv : (FirstTick /\ TickStart(i)) \/ JobStep(i)
    \/ PatchRecommendation
    \/ AdvanceClock

SpecJob == InitRestart /\ [][NextJob]_vars

(* One tick in full where every awaited call returns or throws: an          *)
(* invocation that is past the guard takes its next step sooner or later     *)
NextLive == \E i \in Inv : (FirstTick /\ TickStart(i)) \/ JobStep(i)

SpecLive ==
    InitRestart /\ [][NextLive]_vars /\ \A i \in Inv : WF_vars(JobStep(i))

(* The rows a sync of workspace w started by POST /api/workspaces/:id/sync  *)
(* (routes/workspaces.ts:189-193) leaves when it ran at time t: the route    *)
(* opens no JobRun                                                           *)
RECURSIVE SyncUpserts(_, _, _, _)
SyncUpserts(tbl, w, records, now) ==
    IF records = <<>> THEN tbl
    ELSE SyncUpserts(Put(tbl, <<w, Head(records).resourceId>>,
                         SyncResourceRow(RowOf(tbl, <<w, Head(records).resourceId>>),
                                         Head(records), now)),
                     w, Tail(records), now)

AllRecords(acc) ==
    FulfilledValues([j \in 1..Len(CollectorNames) |->
                        Settle(CollectorNames[j], acc,
                               [listing |-> {}, enrich |-> {}])])

(* The inventory sync of the first workspace of a tick on two workspaces,   *)
(* up to its stale sweep, with the clock: w1 was scanned by a job and w2     *)
(* synced through the route, each one or more hours ago                      *)
InitSweep ==
    /\ clock = 0
    /\ awsMock = TRUE
    /\ account = Account
    /\ isRunning = FALSE
    /\ workspaces = [w \in {"w1"} |-> [status |-> "error"]]
                     @@ [w \in {"w2"} |-> [status |-> "pending"]]
    /\ \E age1, age2 \in 1..SeedAgeHours :
          /\ jobRuns = <<SeedJobRun("w1", 0 - age1)>>
          /\ resources = SyncUpserts(SeedResources("w1", 0 - age1), "w2",
                                     AllRecords(Account), 0 - age2)
          /\ recs = SeedRecs("w1", 0 - age1)
    /\ pc = [i \in Inv |-> "idle"]
    /\ loc = [i \in Inv |-> LocInit]
    /\ skipped = 0
    /\ gone = {}

NextSweep ==
    \/ \E i \in Inv :
          \/ FirstTick /\ TickStart(i)
          \/ FindMany(i) \/ PwFindUnique(i) \/ PwCreateJob(i)
          \/ SyncThrows(i) \/ SyncFindUnique(i) \/ SyncAssumeRole(i)
          \/ SyncCollect(i) \/ SyncUpsert(i) \/ SyncUpsertFails(i) \/ SyncSweep(i)
    \/ AdvanceClock

SpecSweep == InitSweep /\ [][NextSweep]_vars

-----------------------------------------------------------------------------
(* Properties of the scheduler, checked under SpecSched *)

Active(i) == pc[i] /= "idle"

(* C1: at any time at most one invocation of runSchedulerTick is past the    *)
(* isRunning guard; an invocation that finds the guard set never gets past   *)
(* it, and a tick is dropped (the history counter `skipped` moves) without   *)
(* any change to the database, to the guard or to any invocation's position: *)
(* nothing is queued.                                                        *)
C1_SingleTickPastGuard ==
    /\ [](\A i, j \in Inv : Active(i) /\ Active(j) => i = j)
    /\ [][/\ \A i \in Inv : ~Active(i) /\ isRunning => ~Active(i)'
          /\ skipped' /= skipped =>
                /\ \E j \in Inv : Active(j)
                /\ UNCHANGED <<workspaces, jobRuns, resources, recs,
                               isRunning, pc, loc>>]_vars

(* a tick was dropped while another invocation is between two Recommendation *)
(* upserts of its job                                                        *)
C1_Witness ==
    /\ skipped > 0
    /\ \E i \in Inv : pc[i] = "rec_upsert" /\ loc[i].upsertCount > 0

(* C6: whenever a tick that passed the guard has ended, by the empty         *)
(* workspace list, by the end of the loop or by an exception, isRunning is   *)
(* false, so that the next tick passes the guard; isRunning is true exactly  *)
(* while an invocation is past the guard.                                    *)
C6_GuardReleased == isRunning <=> \E i \in Inv : Active(i)

(* a tick ended by an exception (the jobRun.update of the catch branch threw *)
(* and left its JobRun running), and a later tick ran a job to completion    *)
C6_Witness ==
    /\ ~isRunning
    /\ \A i \in Inv : ~Active(i)
    /\ Len(jobRuns) = 2
    /\ jobRuns[1].status = "running"
    /\ jobRuns[2].status = "completed"

-----------------------------------------------------------------------------
(* Properties of one job, checked under SpecJob *)

(* the step is a Recommendation upsert of invocation i that committed *)
RecUpsertStep(i) ==
    pc[i] = "rec_upsert" /\ loc'[i].upsertCount = loc[i].upsertCount + 1

(* C2: the job writes Recommendation.status only when it inserts the row,    *)
(* with the value new: no step of a job changes the status of an existing    *)
(* row, whatever the user set it to and however the user's PATCH requests    *)
(* interleave with the job, no row disappears, and each upsert of a          *)
(* recommendation the engine emitted stores the emitted description,         *)
(* estimatedMonthlySavings, confidence and metadata.                         *)
C2_StatusWrittenOnInsertOnly ==
    [][/\ \A k \in DOMAIN recs :
             /\ k \in DOMAIN recs'
             /\ recs'[k].status /= recs[k].status => UNCHANGED <<pc, loc>>
       /\ \A k \in DOMAIN recs' \ DOMAIN recs : recs'[k].status = "new"
       /\ \A i \in Inv : RecUpsertStep(i) =>
             LET rec == loc[i].recommendations[loc[i].upsertCount + 1]
                 k == RecKey(CurWs(i), rec)
             IN /\ k \in DOMAIN recs'
                /\ recs'[k].description = rec.description
                /\ recs'[k].estimatedMonthlySavings = rec.estimatedMonthlySavings
                /\ recs'[k].confidence = rec.confidence
                /\ recs'[k].metadata = rec.metadata]_vars

(* a job has upserted all its recommendations; the row of the orphan volume, *)
(* written by an earlier job and dismissed by the user, has a new            *)
(* description (the volume is a day older) and is still dismissed            *)
C2_Witness ==
    \E i \in Inv :
       /\ pc[i] = "ws_update"
       /\ jobRuns[1].startedAt < 0
       /\ LET k == <<CurWs(i), MockEBSVolumes[1].volumeId, "EBS_ORPHAN">> IN
             /\ k \in DOMAIN recs
             /\ recs[k].status = "dismissed"
             /\ recs[k].description[4] = MockVolumeAgeDays + 1

(* C3: every JobRun that is running has no completedAt, and every JobRun     *)
(* that is completed or failed has a completedAt not before its startedAt.   *)
C3_JobRunTimestamps ==
    \A j \in 1..Len(jobRuns) :
       /\ jobRuns[j].status \in {"running", "completed", "failed"}
       /\ jobRuns[j].status = "running" => jobRuns[j].completedAt = None
       /\ jobRuns[j].status \in {"completed", "failed"} =>
             /\ IsSome(jobRuns[j].completedAt)
             /\ jobRuns[j].startedAt <= Val(jobRuns[j].completedAt)

(* a job failed some hours after it started, next to a completed one *)
C3_Witness ==
    /\ \E j \in 1..Len(jobRuns) :
          /\ jobRuns[j].status = "failed"
          /\ jobRuns[j].startedAt < Val(jobRuns[j].completedAt)
    /\ \E j \in 1..Len(jobRuns) : jobRuns[j].status = "completed"

(* the step is the stale sweep of invocation i's sync, and it committed *)
SweepStep(i) ==
    pc[i] = "sync_sweep" /\ pc'[i] = "engine_list" /\ IsSome(loc'[i].syncResult)

(* the Resource rows of invocation i's workspace that the current collection *)
(* did not return                                                            *)
NotReturned(i) ==
    {k \in DOMAIN resources :
        /\ k[1] = CurWs(i)
        /\ \A n \in 1..Len(loc[i].allResources) :
              loc[i].allResources[n].resourceId /= k[2]}

(* C4 as stated: after the stale sweep every Resource row of the workspace   *)
(* that the current collection did not return is present with state          *)
(* not-found.                                                                *)
C4_SweepMarksEveryMissingRow ==
    [][\A i \in Inv : SweepStep(i) =>
          \A k \in NotReturned(i) :
             k \in DOMAIN resources' /\ resources'[k].state = "not-found"]_vars

(* C4, amended: after the stale sweep every Resource row of the workspace    *)
(* that the current collection did not return and whose lastSeenAt is more   *)
(* than one hour before the sweep is present with state not-found; every     *)
(* other row is present and as it was.                                       *)
C4_SweepMarksStaleMissingRows ==
    [][\A i \in Inv : SweepStep(i) =>
          /\ DOMAIN resources' = DOMAIN resources
          /\ \A k \in NotReturned(i) :
                IF resources[k].lastSeenAt < clock - OneHour
                THEN resources'[k].state = "not-found"
                ELSE resources'[k] = resources[k]]_vars

(* the sweep has marked the terminated instance, last seen two hours ago *)
C4_Witness ==
    \E i \in Inv :
       /\ pc[i] = "engine_list"
       /\ IsSome(loc[i].syncResult)
       /\ <<CurWs(i), "i-gone">> \in DOMAIN resources
       /\ resources[<<CurWs(i), "i-gone">>].state = "not-found"
       /\ resources[<<CurWs(i), "i-gone">>].lastSeenAt < clock - OneHour

(* the job of invocation i has a JobRun and processWorkspace is returning *)
JobEnded(i) == pc[i] = "pw_return" /\ loc[i].jobId /= 0

(* C5 as stated: a job that runs against the mock client after an earlier    *)
(* completed job of the same workspace creates no Recommendation row and     *)
(* changes no field of one.                                                  *)
C5_RerunChangesNoRecommendation ==
    [][\A i \in Inv :
          /\ awsMock
          /\ RecUpsertStep(i)
          /\ \E j \in 1..Len(jobRuns) :
                /\ j /= loc[i].jobId
                /\ jobRuns[j].workspaceId = CurWs(i)
                /\ jobRuns[j].status = "completed"
          => recs' = recs]_vars

(* C7 as stated: when a job has ended failed, the JobRun's errorMessage is   *)
(* the message of the exception, completedAt is set, and the workspace's     *)
(* status is the one processWorkspace read before the job started.           *)
C7_FailedJobKeepsWorkspaceStatus ==
    \A i \in Inv :
       JobEnded(i) /\ JobStatus(i) = "failed" =>
          /\ jobRuns[loc[i].jobId].errorMessage = loc[i].error
          /\ IsSome(jobRuns[loc[i].jobId].completedAt)
          /\ workspaces[CurWs(i)].status = Val(loc[i].workspace).status

(* C8: when processWorkspace returns without having caught an exception, its *)
(* JobRun is completed with completedAt set and recommendationsFound equal   *)
(* to the number of upserts of the run, which is the number of               *)
(* recommendations the engine returned, each of them has its row, and the    *)
(* workspace is connected; and the step that marks a JobRun completed is     *)
(* taken only when all upserts are done and the workspace is connected.      *)
C8_CompletedJob ==
    /\ [](\A i \in Inv :
            JobEnded(i) /\ loc[i].error = None =>
               /\ JobStatus(i) = "completed"
               /\ IsSome(jobRuns[loc[i].jobId].completedAt)
               /\ jobRuns[loc[i].jobId].recommendationsFound = loc[i].upsertCount
               /\ loc[i].upsertCount = Len(loc[i].recommendations)
               /\ \A n \in 1..Len(loc[i].recommendations) :
                     RecKey(CurWs(i), loc[i].recommendations[n]) \in DOMAIN recs
               /\ workspaces[CurWs(i)].status = "connected")
    /\ [][\A i \in Inv :
             JobStatus(i)' = "completed" /\ JobStatus(i) = "running" =>
                /\ loc[i].upsertCount = Len(loc[i].recommendations)
                /\ workspaces[CurWs(i)].status = "connected"]_vars

(* the job of a workspace that was pending ends completed with the two       *)
(* recommendations of the account                                            *)
C8_Witness ==
    \E i \in Inv :
       /\ JobEnded(i)
       /\ JobStatus(i) = "completed"
       /\ Val(loc[i].workspace).status = "pending"
       /\ jobRuns[loc[i].jobId].recommendationsFound = 2

(* the Resource rows of invocation i's workspace that were last seen more    *)
(* than one hour before its job started: no upsert of the job touched them   *)
StaleUnobserved(i) ==
    {k \in DOMAIN resources :
        /\ k[1] = CurWs(i)
        /\ resources[k].lastSeenAt < jobRuns[loc[i].jobId].startedAt - OneHour}

C10_UpsertFailureNeverFailsJob ==
    \A i \in Inv :
       JobEnded(i) /\ JobStatus(i) = "failed" =>
          jobRuns[loc[i].jobId].errorMessage \notin {Some(e) : e \in UpsertErrors}

-----------------------------------------------------------------------------
(* Failures of credential assumption and of the inventory sync, SpecJob *)

C12_SyncFailureDoesNotAbortJob ==
    \A i \in Inv :
       IsSome(loc[i].syncError) /\ loc[i].error = None =>
          /\ pc[i] /= "pw_markFailed"
          /\ JobStatus(i) /= "failed"
          /\ pc[i] = "pw_return" =>
                /\ JobStatus(i) = "completed"
                /\ jobRuns[loc[i].jobId].recommendationsFound =
                      Len(loc[i].recommendations)
                /\ \A n \in 1..Len(loc[i].recommendations) :
                      RecKey(CurWs(i), loc[i].recommendations[n]) \in DOMAIN recs

(* the sync's AssumeRole failed and the job of the pending workspace has     *)
(* ended completed with the two recommendations of the account               *)
C12_Witness ==
    \E i \in Inv :
       /\ JobEnded(i)
       /\ loc[i].syncError = Some(AssumeRoleError)
       /\ Val(loc[i].workspace).status = "pending"
       /\ JobStatus(i) = "completed"
       /\ jobRuns[loc[i].jobId].recommendationsFound = 2
       /\ Cardinality(DOMAIN recs) = 2

-----------------------------------------------------------------------------
(* A workspace deleted before its turn, SpecGone *)

(* C13: when processWorkspace loads a workspace that no longer exists, its   *)
(* step changes no row of any table and processWorkspace returns (or the     *)
(* lookup itself throws); at that return no JobRun was inserted for the      *)
(* invocation and the workspace has no JobRun, Resource or Recommendation    *)
(* row.                                                                      *)
C13_AbsentWorkspaceIsSkipped ==
    /\ [][\A i \in Inv :
             /\ pc[i] = "pw_findUnique"
             /\ Head(loc[i].queue) \notin DOMAIN workspaces
             /\ pc'[i] /= pc[i]
             => /\ pc'[i] \in {"pw_return", "idle"}
                /\ UNCHANGED <<workspaces, jobRuns, resources, recs>>]_vars
    /\ [](\A i \in Inv :
            pc[i] = "pw_return" /\ loc[i].workspace = None =>
               /\ loc[i].jobId = 0
               /\ ~HasRows(Head(loc[i].queue)))

(* the tick enumerated two workspaces, ran the job of the first to           *)
(* completion and found the second deleted at its turn                       *)
C13_Witness ==
    \E i \in Inv :
       /\ pc[i] = "pw_return"
       /\ loc[i].workspace = None
       /\ Head(loc[i].queue) \in gone
       /\ Len(jobRuns) = 1
       /\ jobRuns[1].status = "completed"

-----------------------------------------------------------------------------
(* Properties of the collector sweep, checked under SpecSync *)

(* invocation i runs one batch of collectors in this step *)
CollectStep(i) == pc[i] = "sync_collect" /\ loc'[i] /= loc[i]

(* the collectors of the batch run in a CollectStep of i *)
StepBatch(i) ==
    SubSeq(CollectorNames, Len(loc[i].invoked) + 1, Len(loc'[i].invoked))

(* the entries the step appended to the error list *)
NewErrors(i) == SubSeq(loc'[i].errors, Len(loc[i].errors) + 1, Len(loc'[i].errors))

(* C14: whichever collectors reject, the sweep calls each of the sixteen     *)
(* collectors exactly once, in list order, and always reaches its end (from  *)
(* the collector loop the sync only goes on to the upserts or to the stale   *)
(* sweep); each batch appends the records of every fulfilled collector to    *)
(* the result, and to the error list exactly one entry                       *)
(* <<Service, ": ", message>> for every rejected collector of the batch and  *)
(* none for a fulfilled one; the entries appended earlier stay.              *)
C14_SweepIsolatesCollectorFailures ==
    /\ [](\A i \in Inv :
            /\ pc[i] \in {"sync_upsert", "sync_sweep"} =>
                  loc[i].invoked = CollectorNames
            /\ pc[i] = "sync_collect" =>
                  /\ Len(loc[i].invoked) < Len(CollectorNames)
                  /\ loc[i].invoked = SubSeq(CollectorNames, 1, Len(loc[i].invoked)))
    /\ [][\A i \in Inv :
            /\ pc[i] = "sync_collect" =>
                  pc'[i] \in {"sync_collect", "sync_upsert", "sync_sweep"}
            /\ CollectStep(i) =>
                  LET batch == StepBatch(i)
                      res == loc'[i].results
                      new == NewErrors(i)
                  IN /\ Len(batch) > 0
                     /\ Len(res) = Len(batch)
                     /\ loc'[i].invoked = loc[i].invoked \o batch
                     /\ loc'[i].allResources =
                            loc[i].allResources \o FulfilledValues(res)
                     /\ SubSeq(loc'[i].errors, 1, Len(loc[i].errors)) = loc[i].errors
                     /\ \A j \in 1..Len(batch) :
                           Cardinality({n \in 1..Len(new) : new[n][1] = batch[j]})
                           = IF res[j].status = "rejected" THEN 1 ELSE 0
                     /\ \A n \in 1..Len(new) :
                           \E j \in 1..Len(batch) :
                              /\ res[j].status = "rejected"
                              /\ new[n] = <<batch[j], ": ", res[j].reason>>]_vars

(* the sweep is over: EC2 and S3 rejected, EBS, DynamoDB and SQS returned   *)
(* their records                                                             *)
C14_Witness ==
    \E i \in Inv :
       /\ pc[i] = "sync_upsert"
       /\ loc[i].idx = 1
       /\ loc[i].invoked = CollectorNames
       /\ loc[i].errors = <<ErrorEntry("EC2", UpstreamError),
                            ErrorEntry("S3", UpstreamError)>>
       /\ Len(loc[i].allResources) = 3
       /\ loc[i].allResources[1].service = "EBS"
       /\ loc[i].allResources[2].service = "DynamoDB"
       /\ loc[i].allResources[3].service = "SQS"

(* C15: whenever the listing call of one of the sixteen collectors fails in *)
(* a batch, the error list after the batch holds an entry of that collector. *)
C15_ListingFailureIsSurfaced ==
    [][\A i \in Inv :
          CollectStep(i) =>
             \A name \in Val(loc'[i].upstream).listing :
                \E n \in 1..Len(loc'[i].errors) : loc'[i].errors[n][1] = name]_vars

(* the resources the listing call of a collector enumerates *)
ListedIds(name, acc) ==
    {call[1] : call \in EnrichCalls(name, acc)}

(* C16: for every bucket, table and queue enumerated by a listing call that *)
(* succeeded, the result holds a record after the batch, whichever calls    *)
(* per resource failed.                                                      *)
C16_EnrichmentFailureKeepsRecord ==
    [][\A i \in Inv :
          CollectStep(i) =>
             LET batch == StepBatch(i)
             IN \A j \in 1..Len(batch) :
                   batch[j] \notin Val(loc'[i].upstream).listing =>
                      \A id \in ListedIds(batch[j], account) :
                         \E n \in 1..Len(loc'[i].allResources) :
                            loc'[i].allResources[n].resourceId = id]_vars

-----------------------------------------------------------------------------
(* C17: the Recommendation table has one row per (workspaceId, resourceId,  *)
(* type): no two keys share a row id, an upsert of a recommendation whose    *)
(* key has a row leaves the set of rows as it was and writes the row that    *)
(* was there (same id), and an upsert of a key without a row adds exactly    *)
(* that one row.                                                             *)
C17_OneRowPerRecommendationKey ==
    /\ [](\A k1, k2 \in DOMAIN recs : recs[k1].id = recs[k2].id => k1 = k2)
    /\ [][\A i \in Inv : RecUpsertStep(i) =>
             LET rec == loc[i].recommendations[loc[i].upsertCount + 1]
                 k == RecKey(CurWs(i), rec)
             IN /\ \A k2 \in DOMAIN recs : recs'[k2].id = recs[k2].id
                /\ IF k \in DOMAIN recs
                   THEN DOMAIN recs' = DOMAIN recs
                   ELSE /\ DOMAIN recs' = DOMAIN recs \cup {k}
                        /\ \A k2 \in DOMAIN recs : recs[k2].id /= recs'[k].id]_vars

(* a job re-emitted both recommendations of an earlier job: still two rows, *)
(* with the ids the earlier job gave them                                    *)
C17_Witness ==
    \E i \in Inv :
       /\ pc[i] = "ws_update"
       /\ jobRuns[1].startedAt < 0
       /\ loc[i].upsertCount = 2
       /\ Cardinality(DOMAIN recs) = 2
       /\ \A k \in DOMAIN recs : recs[k].id \in {1, 2}

-----------------------------------------------------------------------------
(* Properties of the analyzers, checked under SpecAnalyze *)

(* invocation i receives the recommendations of runFinOpsEngine in this step *)
EngineAnalyzed(i) ==
    pc[i] = "engine_upsert" /\ pc'[i] \in {"rec_upsert", "ws_update"}

(* the recommendations of one type, in the order of the list *)
OfType(recommendations, type) ==
    SelectSeq(recommendations, LAMBDA rec : rec.type = type)

(* C18: every recommendation the engine returns, on accounts whose sizes,   *)
(* counts and metrics are not negative, has estimatedMonthlySavings >= 0     *)
(* and a whole number of cents (a multiple of 100 in 1/10000 USD).           *)
C18_SavingsNonNegativeWholeCents ==
    \A i \in Inv :
       \A n \in 1..Len(loc[i].recommendations) :
          /\ loc[i].recommendations[n].estimatedMonthlySavings >= 0
          /\ loc[i].recommendations[n].estimatedMonthlySavings % 100 = 0

(* the engine returned one recommendation of each of the eight analyzers,  *)
(* the oversized function's savings being 8.33 USD after rounding           *)
C18_Witness ==
    \E i \in Inv :
       /\ pc[i] = "rec_upsert"
       /\ Len(loc[i].recommendations) = 8
       /\ \E n \in 1..8 :
             /\ loc[i].recommendations[n].type = "LAMBDA_OVERSIZED"
             /\ loc[i].recommendations[n].estimatedMonthlySavings = 83300
       /\ \E n \in 1..8 : loc[i].recommendations[n].type = "NAT_GW_IDLE"

(* C19: analyzeEBSOrphaned returns an EBS_ORPHAN recommendation for a       *)
(* volume exactly if its state is available, it has no attachment and       *)
(* now - createTime is more than 7 days (none at exactly 7 days); the        *)
(* recommendation's savings are size x pricePerGiB and its confidence high.  *)
C19_OrphanIffOlderThanSevenDays ==
    [][\A i \in Inv : EngineAnalyzed(i) =>
          LET volumes == Val(loc[i].lists).ebs
              out == OfType(loc'[i].recommendations, "EBS_ORPHAN")
          IN \A k \in 1..Len(volumes) :
                LET v == volumes[k]
                    hits == {n \in 1..Len(out) : out[n].resourceId = v.volumeId}
                    price == IF v.volumeType \in DOMAIN EBS_MONTHLY_PER_GIB
                             THEN EBS_MONTHLY_PER_GIB[v.volumeType]
                             ELSE EbsFallbackPerGiB
                IN /\ hits /= {} <=>
                         /\ v.state = "available"
                         /\ v.attachments = 0
                         /\ clock - v.createTime > ORPHAN_DAYS_THRESHOLD * HoursPerDay
                   /\ \A n \in hits :
                         /\ out[n].estimatedMonthlySavings = v.size * price
                         /\ out[n].confidence = "high"]_vars

(* the instance qualifies for a downsizing recommendation *)
Qualifies(instance, metrics) ==
    /\ instance.state = "running"
    /\ \E k \in 1..Len(metrics) :
          /\ metrics[k].instanceId = instance.instanceId
          /\ metrics[k].periodDays >= MinPeriodDays
          /\ metrics[k].averageCpuPercent < CPU_THRESHOLD

(* C20: analyzeEC2Downsizing returns exactly one EC2_DOWN_SIZE              *)
(* recommendation for each running instance that has a metric with          *)
(* periodDays >= 14 and averageCpuPercent < 10, in the order of the          *)
(* instance list, and none for any other instance; the confidence is high    *)
(* exactly if averageCpuPercent < 5, and medium otherwise.                   *)
C20_DownsizeExactlyQualifyingInstances ==
    [][\A i \in Inv : EngineAnalyzed(i) =>
          LET metrics == loc[i].cpuMetrics
              expected == SelectSeq(Val(loc[i].lists).ec2,
                                    LAMBDA inst : Qualifies(inst, metrics))
              out == OfType(loc'[i].recommendations, "EC2_DOWN_SIZE")
          IN /\ Len(out) = Len(expected)
             /\ \A n \in 1..Len(out) :
                   /\ out[n].resourceId = expected[n].instanceId
                   /\ \E k \in 1..Len(metrics) :
                         /\ metrics[k].instanceId = out[n].resourceId
                         /\ out[n].confidence = "high" <=>
                               metrics[k].averageCpuPercent < CPU_HIGH_CONFIDENCE
                         /\ out[n].confidence \in {"high", "medium"}]_vars

(* two running instances, metrics returned in the other order: the first    *)
(* at 4.9 % is recommended with confidence high, the second at exactly 5 %   *)
(* with confidence medium                                                    *)
C20_Witness ==
    \E i \in Inv :
       /\ pc[i] = "rec_upsert"
       /\ Len(loc[i].recommendations) = 2
       /\ loc[i].cpuMetrics[1].instanceId = "i-2"
       /\ loc[i].recommendations[1].resourceId = "i-1"
       /\ loc[i].recommendations[1].confidence = "high"
       /\ loc[i].recommendations[2].resourceId = "i-2"
       /\ loc[i].recommendations[2].confidence = "medium"
       /\ loc[i].cpuMetrics[1].averageCpuPercent = CPU_HIGH_CONFIDENCE

(* C21: the hourly price of an EC2 instance type absent from the price     *)
(* table is the fallback 0.192 in the cost function too: the engine          *)
(* persists a running instance of unknown type with estimatedMonthlyCost =   *)
(* 0.192 x 730.                                                              *)
C21_UnknownTypeCostIsFallback ==
    [][\A i \in Inv : EngineAnalyzed(i) =>
          LET instances == Val(loc[i].lists).ec2
          IN \A k \in 1..Len(instances) :
                (/\ instances[k].state = "running"
                 /\ instances[k].instanceType \notin DOMAIN EC2_HOURLY_PRICES)
                => resources'[<<CurWs(i), instances[k].instanceId>>]
                       .estimatedMonthlyCost = Ec2FallbackHourly * HOURS_IN_MONTH]_vars

-----------------------------------------------------------------------------
(* Properties of the collector batches, checked under SpecBatch *)

(* the collectors invocation i calls in this step *)
StartedNow(i) ==
    SubSeq(loc'[i].invoked, Len(loc[i].invoked) + 1, Len(loc'[i].invoked))

(* C22: during a collector sweep at most 4 collectors are in flight at any  *)
(* time; the 16 collectors are called in four batches of four in list        *)
(* order, and no collector of the next batch is called before every          *)
(* collector of the batch before it has settled, fulfilled or rejected.      *)
C22_AtMostFourInFlight ==
    /\ [](\A i \in Inv :
             /\ Cardinality(loc[i].inflight) <= BatchSize
             /\ loc[i].inflight \subseteq
                   {loc[i].invoked[n] : n \in 1..Len(loc[i].invoked)}
             /\ pc[i] \in {"sync_upsert", "sync_sweep"} =>
                   loc[i].invoked = CollectorNames /\ loc[i].inflight = {})
    /\ [][\A i \in Inv :
             StartedNow(i) /= <<>> =>
                /\ loc[i].inflight = {}
                /\ Len(StartedNow(i)) = BatchSize
                /\ Len(loc[i].invoked) \in {0, 4, 8, 12}
                /\ loc'[i].invoked =
                      SubSeq(CollectorNames, 1, Len(loc[i].invoked) + BatchSize)
                /\ \A j \in 1..Len(loc[i].results) :
                      loc[i].results[j].status \in {"fulfilled", "rejected"}]_vars

(* the second batch is in flight: Lambda is still pending after ELB was     *)
(* rejected and CloudFront and VPC fulfilled, and the first batch ended      *)
(* with EC2 rejected                                                         *)
C22_Witness ==
    \E i \in Inv :
       /\ pc[i] = "sync_await"
       /\ Len(loc[i].invoked) = 8
       /\ loc[i].inflight = {"Lambda"}
       /\ loc[i].results[2].status = "rejected"
       /\ loc[i].results[3].status = "fulfilled"
       /\ loc[i].errors = <<ErrorEntry("EC2", UpstreamError)>>

-----------------------------------------------------------------------------
(* Properties of the workspace loop, checked under SpecSched *)

(* invocation i is inside a call of processWorkspace *)
InProcessWorkspace(i) == pc[i] \notin {"idle", "findMany"}

(* invocation i calls processWorkspace in this step *)
ProcessWorkspaceCalled(i) ==
    pc'[i] = "pw_findUnique" /\ pc[i] /= "pw_findUnique"

(* C23: within a tick processWorkspace is called for the next workspace     *)
(* only when the call for the previous one has returned, and under any       *)
(* interleaving of tick invocations at most one call of processWorkspace     *)
(* (one scheduler job) is in progress at any time.                           *)
C23_OneJobInProgress ==
    /\ [](\A i, j \in Inv :
             InProcessWorkspace(i) /\ InProcessWorkspace(j) => i = j)
    /\ [][\A i \in Inv :
             ProcessWorkspaceCalled(i) =>
                /\ pc[i] \in {"findMany", "pw_return"}
                /\ pc[i] = "pw_return" =>
                      /\ loc[i].queue /= <<>>
                      /\ loc'[i].queue = Tail(loc[i].queue)
                /\ loc'[i].jobId = 0
                /\ \A j \in Inv : j /= i => ~InProcessWorkspace(j)]_vars

(* a tick is in the job of its second workspace after the job of the first  *)
(* was completed, and another tick was dropped meanwhile                     *)
C23_Witness ==
    /\ skipped > 0
    /\ \E i \in Inv :
          /\ pc[i] = "engine_upsert"
          /\ loc[i].jobId = 2
          /\ Len(loc[i].queue) = 1
          /\ jobRuns[1].status = "completed"
          /\ jobRuns[1].workspaceId /= jobRuns[2].workspaceId

-----------------------------------------------------------------------------
(* Properties of the live client, checked under SpecClient *)

(* the AssumeRole calls of the client whose credentials were returned *)
Granted(client) ==
    {n \in 1..Len(client.issued) : client.issued[n] = "fulfilled"}

(* C24: for one live client, under any interleaving of the operations       *)
(* called on it (the eight list calls of Promise.all and the metric fetch),  *)
(* AssumeRole is issued at most once, and every service client an operation  *)
(* builds uses the credentials that this one call returned.                  *)
C24_AssumeRoleIssuedOnce ==
    \A i \in Inv :
       LET client == loc[i].client
       IN /\ Len(client.issued) <= 1
          /\ \A op \in DOMAIN client.ops :
                /\ client.ops[op].awaiting = 1
                /\ client.ops[op].creds \subseteq Granted(client) \cap {1}
                /\ client.ops[op].status = "fulfilled" =>
                      client.ops[op].creds = {1}

(* the eight list calls and the metric fetch are fulfilled, listS3Buckets   *)
(* after asking for credentials a second time for its bucket                 *)
C24_Witness ==
    \E i \in Inv :
       /\ pc[i] = "engine_metricsWait"
       /\ Len(loc[i].client.issued) = 1
       /\ DOMAIN loc[i].client.ops =
             {ListOps[n] : n \in 1..Len(ListOps)} \cup {MetricsOp}
       /\ \A op \in DOMAIN loc[i].client.ops :
             loc[i].client.ops[op].status = "fulfilled"
       /\ loc[i].client.ops["listS3Buckets"].asked = 2
       /\ loc[i].client.ops["listNatGateways"].asked = 2

-----------------------------------------------------------------------------
(* Properties of the Resource table, checked under SpecJob *)

(* invocation i commits one Resource upsert of the inventory sync *)
SyncUpserted(i) == pc[i] = "sync_upsert" /\ resources' /= resources

(* C25: every upsert of the inventory sync and of the analysis path leaves  *)
(* one Resource row per (workspaceId, resourceId): it adds the row of a new  *)
(* key or writes the row the key has, sets lastSeenAt to now, keeps          *)
(* createdAt, and the sync's upsert, whose record carries no cost, keeps the *)
(* stored estimatedMonthlyCost; no step removes a row or changes createdAt.  *)
C25_UpsertKeepsRowAndCost ==
    [][/\ \A k \in DOMAIN resources :
             /\ k \in DOMAIN resources'
             /\ resources'[k].createdAt = resources[k].createdAt
       /\ \A i \in Inv :
             /\ SyncUpserted(i) =>
                   LET r == loc[i].allResources[loc[i].idx]
                       k == <<CurWs(i), r.resourceId>>
                   IN /\ DOMAIN resources' = DOMAIN resources \cup {k}
                      /\ \A x \in DOMAIN resources \ {k} :
                            resources'[x] = resources[x]
                      /\ resources'[k].lastSeenAt = clock
                      /\ (k \in DOMAIN resources /\ ~IsSome(r.estimatedMonthlyCost))
                         => resources'[k].estimatedMonthlyCost
                               = resources[k].estimatedMonthlyCost
             /\ EngineAnalyzed(i) =>
                   LET rows == ResourcesToUpsert(Val(loc[i].lists))
                       keys == {<<CurWs(i), rows[n].resourceId>> : n \in 1..Len(rows)}
                   IN /\ DOMAIN resources' = DOMAIN resources \cup keys
                      /\ \A x \in DOMAIN resources \ keys :
                            resources'[x] = resources[x]
                      /\ \A n \in 1..Len(rows) :
                            LET row == resources'[<<CurWs(i), rows[n].resourceId>>]
                            IN /\ row.lastSeenAt = clock
                               /\ row.estimatedMonthlyCost =
                                     rows[n].estimatedMonthlyCost]_vars

(* the sync has upserted the row of an instance that an earlier job created *)
(* and priced: seen now, created then, cost as the analysis path wrote it    *)
C25_Witness ==
    \E i \in Inv :
       /\ pc[i] = "sync_sweep"
       /\ clock > 0
       /\ \E n \in 1..Len(loc[i].allResources) :
             LET k == <<CurWs(i), loc[i].allResources[n].resourceId>>
             IN /\ k \in DOMAIN resources
                /\ resources[k].createdAt < 0
                /\ resources[k].lastSeenAt = clock
                /\ resources[k].estimatedMonthlyCost > 0

-----------------------------------------------------------------------------
(* Properties of the stale sweep, checked under SpecSweep *)

(* the row was written while the job of invocation i was running: by the    *)
(* upserts of its sync                                                       *)
UpsertedByThisSync(i, k) ==
    /\ k[1] = CurWs(i)
    /\ resources[k].lastSeenAt >= jobRuns[loc[i].jobId].startedAt

FailedServices(i) == {loc[i].errors[n][1] : n \in 1..Len(loc[i].errors)}

(* C27: the stale sweep follows a successful collection only: a sync in     *)
(* which the collector of a service failed does not set state = not-found    *)
(* on the rows of that service.                                              *)
C27_SweepSkipsFailedServices ==
    [][\A i \in Inv : SweepStep(i) =>
          \A k \in DOMAIN resources :
             resources[k].service \in FailedServices(i)
             => resources'[k].state = resources[k].state]_vars

-----------------------------------------------------------------------------
(* Properties of the JobRun rows, checked under SpecLive *)

JobRunEnded(j) ==
    j <= Len(jobRuns) /\ jobRuns[j].status \in {"completed", "failed"}

(* a JobRun that is completed or failed never changes again *)
EndedJobRunsNeverChange ==
    [][\A j \in 1..Len(jobRuns) : JobRunEnded(j) => jobRuns'[j] = jobRuns[j]]_vars

(* C28: every JobRun inserted with status running is completed or failed    *)
(* sooner or later, provided every awaited call returns or throws; and once  *)
(* it is completed or failed, its status, errorMessage, recommendationsFound *)
(* and completedAt never change again.                                       *)
C28_RunningJobRunEnds ==
    /\ \A j \in 1..MaxJobs :
          (j <= Len(jobRuns) /\ jobRuns[j].status = "running") ~> JobRunEnded(j)
    /\ EndedJobRunsNeverChange

-----------------------------------------------------------------------------
(* the tick of invocation i ends in this step, after its enumeration        *)
(* returned workspaces                                                       *)
LoopLeft(i) == InProcessWorkspace(i) /\ pc'[i] = "idle"

(* C29: within one tick every workspace the enumeration returned is         *)
(* processed, also when the job of an earlier workspace failed: a tick in    *)
(* which the job of a workspace has thrown ends only when no workspace of    *)
(* the list is left after that one.                                          *)
C29_EveryWorkspaceProcessed ==
    [][\A i \in Inv : (LoopLeft(i) /\ IsSome(loc[i].error)) =>
          Len(loc[i].queue) = 1]_vars

-----------------------------------------------------------------------------
(* Properties of the analysis path's fetches, checked under SpecClient *)

StatusOf(client, op) ==
    IF op \in DOMAIN client.ops THEN client.ops[op].status ELSE "none"

(* the list calls that have the given status *)
ListCallsIn(client, status) ==
    {n \in 1..Len(ListOps) : StatusOf(client, ListOps[n]) = status}

(* a list call or the metric fetch of invocation i's job was rejected *)
FetchFailed(i) ==
    \/ ListCallsIn(loc[i].client, "rejected") /= {}
    \/ StatusOf(loc[i].client, MetricsOp) = "rejected"

(* every list call was fulfilled, and the metric fetch if there was one *)
FetchSucceeded(i) ==
    /\ ListCallsIn(loc[i].client, "fulfilled") = 1..Len(ListOps)
    /\ StatusOf(loc[i].client, MetricsOp) \in {"fulfilled", "none"}
    /\ StatusOf(loc[i].client, MetricsOp) = "none" => Val(loc[i].lists).ec2 = <<>>

(* the message of the rejection that failed the fetches *)
FetchError(i) ==
    IF Granted(loc[i].client) = {} THEN ErrorOf("engine_assumeRole")
    ELSE IF ListCallsIn(loc[i].client, "rejected") /= {} THEN ErrorOf("engine_list")
    ELSE ErrorOf("engine_metrics")

====
